---- MODULE Spec2Model ----
(***************************************************************************)
(* A model of the wyresup protocol core: the Miftah puncturable key store  *)
(* (fataha / tashfir / fakk / thaqb / aghlaqa) and the Barq datagram       *)
(* protocol (encodeHeader / decodeHeader / createConnection /              *)
(* createDataPacket / processPacket).                                      *)
(*                                                                         *)
(* JavaScript numbers that may exceed 2^31-1 (sequence numbers, clock      *)
(* readings, 32-bit header fields) are pairs <<hi, lo>> standing for       *)
(* hi * 65536 + lo with lo in 0..65535; hi is negative for a negative      *)
(* number.  Byte arrays are sequences over 0..255, strings are sequences   *)
(* of UTF-16 code units, base64 text is a sequence of sextets 0..63 with   *)
(* 64 standing for the padding character.                                  *)
(***************************************************************************)
EXTENDS Integers, Sequences, FiniteSets, TLC

\* ------------------------------------------------------------------------
\* JavaScript numbers and typed-array conversions
\* ------------------------------------------------------------------------

W16 == 256 * 256

NumOf(n) == <<n \div W16, n % W16>>

NumAdd(a, b) ==
  LET lo == a[2] + b[2] IN <<a[1] + b[1] + (lo \div W16), lo % W16>>

NumSub(a, b) ==
  LET lo == a[2] - b[2] IN <<a[1] - b[1] + (lo \div W16), lo % W16>>

NumInc(a) == NumAdd(a, NumOf(1))

NumLess(a, b) == a[1] < b[1] \/ (a[1] = b[1] /\ a[2] < b[2])

NumMax(a, b) == IF NumLess(a, b) THEN b ELSE a

\* ToUint32 of ECMAScript: the value modulo 2^32.
ToUint32(a) == <<a[1] % W16, a[2]>>

\* ToInt32 of ECMAScript: the value modulo 2^32, read as two's complement.
ToInt32(a) ==
  LET h == a[1] % W16 IN <<IF h >= 32768 THEN h - W16 ELSE h, a[2]>>

\* x & 0xFFFFFFFF: both operands go through ToInt32, and 0xFFFFFFFF is -1.
AndFFFFFFFF(a) == ToInt32(a)

\* (x + 0x100000000) % 0x100000000 with the sign-following remainder of JS.
RemTwo32(a) ==
  IF a[1] >= 0 THEN <<a[1] % W16, a[2]>>
  ELSE LET m == <<a[1] % W16, a[2]>> IN
       IF m = <<0, 0>> THEN m ELSE NumSub(m, <<W16, 0>>)

\* DataView.setUint8 / setUint16 / setUint32 (big-endian) and their getters.
SetUint8(n) == <<n % 256>>

SetUint16(n) == <<(n % W16) \div 256, n % 256>>

SetUint32(a) ==
  LET u == ToUint32(a) IN <<u[1] \div 256, u[1] % 256, u[2] \div 256, u[2] % 256>>

\* DataView.setBigUint64(0, BigInt(sequence), false) for sequence >= 0.
SetBigUint64(a) ==
  <<0, 0, (a[1] \div 16777216) % 256, (a[1] \div W16) % 256,
    (a[1] \div 256) % 256, a[1] % 256, a[2] \div 256, a[2] % 256>>

GetUint8(b, at) == b[at + 1]

GetUint16(b, at) == b[at + 1] * 256 + b[at + 2]

GetUint32(b, at) == <<b[at + 1] * 256 + b[at + 2], b[at + 3] * 256 + b[at + 4]>>

\* Uint8Array.slice(from): the elements from index `from` (0-based) on.
Slice(b, from) == [i \in 1..(IF Len(b) > from THEN Len(b) - from ELSE 0) |-> b[i + from]]

Take(b, n) == [i \in 1..(IF Len(b) < n THEN Len(b) ELSE n) |-> b[i]]

\* Bitwise exclusive or of two bytes.
RECURSIVE XorBits(_, _, _)
XorBits(x, y, k) ==
  IF k = 0 THEN 0
  ELSE (IF (x % 2) = (y % 2) THEN 0 ELSE 1) + 2 * XorBits(x \div 2, y \div 2, k - 1)

Xor8(x, y) == XorBits(x, y, 8)

\* The loop out[i] = in[i] ^ key[i % key.length] of tashfir, fakk,
\* encryptPayload and decryptPayload.
XorWithKey(bytes, key) ==
  [i \in 1..Len(bytes) |-> Xor8(bytes[i], key[((i - 1) % Len(key)) + 1])]

\* ------------------------------------------------------------------------
\* Text: TextEncoder.encode and TextDecoder.decode (UTF-8, non-fatal, the
\* byte order mark dropped), Buffer base64
\* ------------------------------------------------------------------------

IsHighSurrogate(u) == u >= 55296 /\ u <= 56319

IsLowSurrogate(u) == u >= 56320 /\ u <= 57343

\* The UTF-8 bytes of one code point.
Utf8Bytes(cp) ==
  IF cp < 128 THEN <<cp>>
  ELSE IF cp < 2048 THEN <<192 + (cp \div 64), 128 + (cp % 64)>>
  ELSE IF cp < 65536
    THEN <<224 + (cp \div 4096), 128 + ((cp \div 64) % 64), 128 + (cp % 64)>>
  ELSE <<240 + (cp \div 262144), 128 + ((cp \div 4096) % 64),
         128 + ((cp \div 64) % 64), 128 + (cp % 64)>>

\* new TextEncoder().encode(s): a surrogate pair is one code point, a lone
\* surrogate is replaced by U+FFFD.  EncodeAt is what the code unit at
\* index i contributes: the second unit of a pair contributes nothing.
EncodeAt(s, i) ==
  IF IsHighSurrogate(s[i]) /\ i < Len(s) /\ IsLowSurrogate(s[i + 1])
    THEN Utf8Bytes(65536 + (s[i] - 55296) * 1024 + (s[i + 1] - 56320))
  ELSE IF IsLowSurrogate(s[i]) /\ i > 1 /\ IsHighSurrogate(s[i - 1])
    THEN <<>>
  ELSE IF IsHighSurrogate(s[i]) \/ IsLowSurrogate(s[i])
    THEN <<239, 191, 189>>
  ELSE Utf8Bytes(s[i])

RECURSIVE EncodeRange(_, _, _)
EncodeRange(s, lo, hi) ==
  IF lo > hi THEN <<>>
  ELSE IF lo = hi THEN EncodeAt(s, lo)
  ELSE LET mid == (lo + hi) \div 2 IN
       EncodeRange(s, lo, mid) \o EncodeRange(s, mid + 1, hi)

TextEncode(s) == EncodeRange(s, 1, Len(s))

\* The UTF-16 code units of one decoded code point.
Utf16Units(cp) ==
  IF cp < 65536 THEN <<cp>>
  ELSE <<55296 + ((cp - 65536) \div 1024), 56320 + ((cp - 65536) % 1024)>>

\* The state of the UTF-8 decoder between two bytes: the code point so
\* far, the continuation bytes needed and seen, and the range allowed for
\* the next one.
DecoderStart == <<0, 0, 0, 128, 191>>

\* One byte read with no sequence open: <<output, state>>.
DecodeLead(x) ==
  IF x < 128 THEN <<(<<x>>), DecoderStart>>
  ELSE IF x >= 194 /\ x <= 223 THEN <<(<<>>), <<x % 32, 1, 0, 128, 191>>>>
  ELSE IF x >= 224 /\ x <= 239
    THEN <<(<<>>), <<x % 16, 2, 0, IF x = 224 THEN 160 ELSE 128,
                                  IF x = 237 THEN 159 ELSE 191>>>>
  ELSE IF x >= 240 /\ x <= 244
    THEN <<(<<>>), <<x % 8, 3, 0, IF x = 240 THEN 144 ELSE 128,
                                 IF x = 244 THEN 143 ELSE 191>>>>
  ELSE <<(<<65533>>), DecoderStart>>

\* The UTF-8 decoder of the Encoding standard, one byte: a malformed
\* sequence yields U+FFFD and the offending byte is read again.
DecodeByte(st, x) ==
  LET cp == st[1]  needed == st[2]  seen == st[3]  lower == st[4]  upper == st[5] IN
  IF needed = 0 THEN DecodeLead(x)
  ELSE IF x < lower \/ x > upper
    THEN <<(<<65533>>) \o DecodeLead(x)[1], DecodeLead(x)[2]>>
  ELSE IF seen + 1 = needed
    THEN <<Utf16Units(cp * 64 + (x % 64)), DecoderStart>>
  ELSE <<(<<>>), <<cp * 64 + (x % 64), needed, seen + 1, 128, 191>>>>

\* The bytes lo..hi read from state st: <<output, state>>.
RECURSIVE DecodeRange(_, _, _, _)
DecodeRange(b, lo, hi, st) ==
  IF lo > hi THEN <<(<<>>), st>>
  ELSE IF lo = hi THEN DecodeByte(st, b[lo])
  ELSE LET mid == (lo + hi) \div 2
           left == DecodeRange(b, lo, mid, st)
           right == DecodeRange(b, mid + 1, hi, left[2])
       IN  <<left[1] \o right[1], right[2]>>

HasBOM(b) == Len(b) >= 3 /\ b[1] = 239 /\ b[2] = 187 /\ b[3] = 191

\* new TextDecoder().decode(bytes): ignoreBOM is false, so a leading byte
\* order mark is removed; fatal is false, so nothing is raised and a
\* sequence cut off by the end of the input yields U+FFFD.
TextDecode(b) ==
  LET body == IF HasBOM(b) THEN Slice(b, 3) ELSE b
      read == DecodeRange(body, 1, Len(body), DecoderStart)
  IN  read[1] \o (IF read[2][2] # 0 THEN <<65533>> ELSE <<>>)

\* The base64 text of one group of up to 3 bytes starting at index i, as
\* sextets 0..63 with 64 for the padding character.
Base64Group(b, i) ==
  IF i = Len(b)
    THEN <<b[i] \div 4, (b[i] % 4) * 16, 64, 64>>
  ELSE IF i + 1 = Len(b)
    THEN <<b[i] \div 4, (b[i] % 4) * 16 + (b[i + 1] \div 16), (b[i + 1] % 16) * 4, 64>>
  ELSE <<b[i] \div 4, (b[i] % 4) * 16 + (b[i + 1] \div 16),
         (b[i + 1] % 16) * 4 + (b[i + 2] \div 64), b[i + 2] % 64>>

\* The groups lo..hi (0-based) of 3 bytes.
RECURSIVE Base64Range(_, _, _)
Base64Range(b, lo, hi) ==
  IF lo > hi THEN <<>>
  ELSE IF lo = hi THEN Base64Group(b, 3 * lo + 1)
  ELSE LET mid == (lo + hi) \div 2 IN
       Base64Range(b, lo, mid) \o Base64Range(b, mid + 1, hi)

\* Buffer.from(bytes).toString('base64').
ToBase64(b) == Base64Range(b, 0, ((Len(b) + 2) \div 3) - 1)

\* The bytes of one group of up to 4 sextets starting at index i, the
\* text ending at index n: a trailing group of 2 or 3 sextets gives 1 or 2
\* bytes, a single trailing sextet gives none.
UnBase64Group(t, i, n) ==
  IF i + 1 > n THEN <<>>
  ELSE IF i + 2 > n THEN <<t[i] * 4 + (t[i + 1] \div 16)>>
  ELSE IF i + 3 > n
    THEN <<t[i] * 4 + (t[i + 1] \div 16), (t[i + 1] % 16) * 16 + (t[i + 2] \div 4)>>
  ELSE <<t[i] * 4 + (t[i + 1] \div 16), (t[i + 1] % 16) * 16 + (t[i + 2] \div 4),
         (t[i + 2] % 4) * 64 + t[i + 3]>>

\* The groups lo..hi (0-based) of 4 sextets.
RECURSIVE UnBase64Range(_, _, _, _)
UnBase64Range(t, lo, hi, n) ==
  IF lo > hi THEN <<>>
  ELSE IF lo = hi THEN UnBase64Group(t, 4 * lo + 1, n)
  ELSE LET mid == (lo + hi) \div 2 IN
       UnBase64Range(t, lo, mid, n) \o UnBase64Range(t, mid + 1, hi, n)

\* Buffer.from(text, 'base64'): decoding stops at the first padding
\* character.
FromBase64(t) ==
  LET pads == {k \in 1..Len(t) : t[k] = 64}
      n == IF pads = {} THEN Len(t)
           ELSE (CHOOSE k \in pads : \A j \in pads : k <= j) - 1
  IN  UnBase64Range(t, 0, ((n + 3) \div 4) - 1, n)

\* ------------------------------------------------------------------------
\* Hashes.  sha256 and sha512 come from utils/CryptoShim, which is outside
\* the modelled files; they are stood in for by a deterministic mixing
\* function of the input bytes with the digest lengths of the real ones.
\* ------------------------------------------------------------------------

RECURSIVE Mix(_, _, _)
Mix(b, lo, hi) ==
  IF lo > hi THEN 5381
  ELSE IF lo = hi THEN (b[lo] + 1) * (lo + 16)
  ELSE LET mid == (lo + hi) \div 2 IN
       (Mix(b, lo, mid) * 33 + Mix(b, mid + 1, hi) + 1) % 65521

Digest(b, n) ==
  LET h == Mix(b, 1, Len(b)) IN [i \in 1..n |-> ((h + i) * (2 * i + 7) + (h \div 251)) % 256]

sha256(b) == Digest(b, 32)

sha512(b) == Digest(b, 64)

\* ------------------------------------------------------------------------
\* Bounds and inputs
\* ------------------------------------------------------------------------

\* Calls of tashfir and fakk made in one behaviour.
MaxCalls == 3

\* Miftah objects created by fataha in one behaviour.
MaxMiftahs == 2

Peers == {"alice", "bob"}

\* 32-byte key material handed to fataha and createConnection.
KeyMaterial(k) == [i \in 1..32 |-> (k * 37 + i * 11) % 256]

MyPrivateKey == KeyMaterial(1)

\* The public key each peer announces.
PeerPublicKey(peerId) == IF peerId = "alice" THEN KeyMaterial(2) ELSE KeyMaterial(3)

\* Plaintext strings: "hi" and U+FEFF followed by the Arabic letter seen.
Plaintexts == {<<104, 105>>, <<65279, 1587>>}

\* Bytes left in the Buffer pool behind a decoded input shorter than the
\* 4-byte sequence prefix.
StaleBytes == {0, 1}

\* ------------------------------------------------------------------------
\* State
\* ------------------------------------------------------------------------

VARIABLES
  keys,        \* Miftah: the module-level Map, peer id -> Miftah object (0: none)
  miftahs,     \* Miftah: the Miftah objects ever created, by object identity
  calls,       \* Miftah: suspended tashfir / fakk calls, in the order they resume
  log,         \* Miftah: the calls that returned, in the order they returned
  nextCall,    \* Miftah: number of tashfir / fakk calls made so far
  connections, \* Barq: the module-level Map as the sequence of its entries
               \*   <<peer id, connection object>>, in insertion order
  conns,       \* Barq: the connection objects ever created, by object identity
  bcalls,      \* Barq: suspended calls, in the order they resume
  blog,        \* Barq: the calls that returned, in the order they returned
  bnextCall,   \* Barq: number of calls made so far
  now,         \* Barq: Date.now()
  ticks,       \* Barq: number of clock advances so far
  header,      \* Header codec: the header handed to encodeHeader
  encoded,     \* Header codec: the bytes encodeHeader returned
  decoded,     \* Header codec: what decodeHeader returned for them
  hpc,         \* Header codec: "idle", "start", "encoded" or "decoded"
  states,      \* Nabd: the module-level Map, peer id -> NabdState or NoState
  received,    \* Nabd: per peer, the sequences handed to onReceive since the
               \*   peer's state object was created (history)
  pulses,      \* Nabd: per peer, the times at which shouldPulse returned
               \*   true (history)
  nclock,      \* Nabd: Date.now(), in ms
  nret,        \* Nabd: the last call, its arguments and what it returned
  ncalls,      \* Nabd: number of calls made so far
  flows,       \* Sayl: the module-level Map, peer id -> SaylState or NoFlow
  timers,      \* Sayl: the pending setTimeout callbacks of onLoss
  nextFlow,    \* Sayl: number of SaylState objects created so far
  scalls,      \* Sayl: number of calls made so far
  sclock,      \* Sayl: Date.now(), in ms
  sret,        \* Sayl: the last call, its arguments and what it returned
  rret,        \* Rotation: the last needsRotation call and what it returned
  rruns,       \* Rotation: number of runs of round trips made so far
  zcalls,      \* ZBAT: the satr and kashf calls suspended at their await
  zlog,        \* ZBAT: the satr and kashf calls that returned, in order
  wire,        \* ZBAT: the packets sent so far, as sealed, as bytes and as received
  zret,        \* ZBAT: the last extractZahir call and what it returned
  zclock,      \* ZBAT: what Date.now() returned last
  thisIdentity, \* Munassiq: this.identity (NoIdentity before tamhid)
  peers,       \* Munassiq: this.peers, peer id -> PeerWasl or NoPeer
  nextPeer,    \* Munassiq: number of PeerWasl objects created so far
  cells,       \* FiveGLite: the module-level Map, peer id -> Khaliyya or NoCell
  mcalls,      \* Munassiq / FiveGLite: the calls suspended at an await
  mret,        \* Munassiq / FiveGLite: the last call that returned and its value
  cut,         \* Munassiq: per peer, qat was the last call made for it (history)
  mcount       \* Munassiq / FiveGLite: number of calls made so far

miftahVars == <<keys, miftahs, calls, log, nextCall>>

barqVars == <<connections, conns, bcalls, blog, bnextCall, now, ticks>>

headerVars == <<header, encoded, decoded, hpc>>

nabdVars == <<states, received, pulses, nclock, nret, ncalls>>

saylVars == <<flows, timers, nextFlow, scalls, sclock, sret>>

rotationVars == <<rret, rruns>>

zbatVars == <<zcalls, zlog, wire, zret, zclock>>

munVars == <<thisIdentity, peers, nextPeer, cells, mcalls, mret, cut, mcount>>

vars ==
  <<miftahVars, barqVars, headerVars, nabdVars, saylVars, rotationVars, zbatVars, munVars>>

NoMiftah == 0

NoSequence == <<-1, 0>>

\* ------------------------------------------------------------------------
\* Miftah: puncturable key store
\* ------------------------------------------------------------------------

\* A fataha that carries the replay state of the record it replaces over.
NewMiftahKeepsState(peerId, myPrivateKey, peerPublicKey) ==
  [peerId |-> peerId,
   masterSecret |-> sha512(myPrivateKey \o peerPublicKey),
   puncturedSequences |-> IF keys[peerId] # NoMiftah
                            THEN miftahs[keys[peerId]].puncturedSequences
                            ELSE {},
   currentSequence |-> IF keys[peerId] # NoMiftah
                         THEN miftahs[keys[peerId]].currentSequence
                         ELSE NumOf(0)]

\* fataha: the Miftah object it builds.
NewMiftah(peerId, myPrivateKey, peerPublicKey) ==
  [peerId |-> peerId,
   masterSecret |-> sha512(myPrivateKey \o peerPublicKey),
   puncturedSequences |-> {},
   currentSequence |-> NumOf(0)]

deriveSequenceKey(masterSecret, sequence) ==
  sha256(masterSecret \o SetBigUint64(sequence))

\* A thaqb that forgets to record the sequence.
thaqbForgets(miftah, sequence) == miftah

thaqb(miftah, sequence) ==
  [miftah EXCEPT !.puncturedSequences = @ \cup {sequence}]

\* A sequence allocation that never advances the counter.
AllocateSequenceStuck(miftah) == miftah

\* const sequence = miftah.currentSequence++: the object after the increment.
AllocateSequence(miftah) == [miftah EXCEPT !.currentSequence = NumInc(@)]

\* tashfir after its await: the base64 text of sequence prefix + ciphertext.
TashfirResult(sequence, seqKey, plaintext) ==
  ToBase64(SetUint32(sequence) \o XorWithKey(TextEncode(plaintext), seqKey))

\* fakk after its await: the decoded text.
FakkPlaintext(ciphertext, seqKey) == TextDecode(XorWithKey(ciphertext, seqKey))

Returned(id, op, peerId, miftah, input, sequence, outcome, value, after) ==
  [id |-> id, op |-> op, peerId |-> peerId, miftah |-> miftah, input |-> input,
   sequence |-> sequence, outcome |-> outcome, value |-> value, after |-> after]

\* The ciphertexts tashfir has returned so far.
Produced == {log[i].value : i \in {j \in DOMAIN log : log[j].op = "tashfir" /\ log[j].outcome = "Ok"}}

\* A ciphertext with the last byte of its payload changed in transit.
Corrupt(text) ==
  LET data == FromBase64(text) IN
  IF Len(data) <= 4 THEN ToBase64(data \o <<88>>)
  ELSE ToBase64([data EXCEPT ![Len(data)] = Xor8(@, 1)])

\* A ciphertext cut short in transit: what is left decodes to fewer than
\* the 4 bytes of the sequence prefix.
Truncated(text) == Take(text, 3)

\* What the network may hand to fakk: the ciphertexts sent, and damaged
\* copies of them.
FakkInputs ==
  Produced \cup {Corrupt(t) : t \in Produced} \cup {Truncated(t) : t \in Produced}

fataha(peerId, myPrivateKey, peerPublicKey) ==
  /\ Len(miftahs) < MaxMiftahs
  /\ miftahs' = Append(miftahs, NewMiftah(peerId, myPrivateKey, peerPublicKey))
  /\ keys' = [keys EXCEPT ![peerId] = Len(miftahs) + 1]
  /\ UNCHANGED <<calls, log, nextCall>>
  /\ UNCHANGED <<barqVars, headerVars, nabdVars, saylVars, rotationVars, zbatVars, munVars>>

\* tashfir up to its await: the lookup, currentSequence++ and the key
\* derivation all run before the call is suspended.
TashfirStart(peerId, plaintext) ==
  /\ nextCall < MaxCalls
  /\ nextCall' = nextCall + 1
  /\ IF keys[peerId] = NoMiftah
       THEN /\ log' = Append(log, Returned(nextCall, "tashfir", peerId, NoMiftah, plaintext,
                                           NoSequence, "NoKey", <<>>, Len(log)))
            /\ UNCHANGED <<keys, miftahs, calls>>
       ELSE LET m == keys[peerId]
                sequence == miftahs[m].currentSequence
            IN /\ miftahs' = [miftahs EXCEPT ![m] = AllocateSequence(@)]
               /\ calls' = Append(calls,
                    [id |-> nextCall, op |-> "tashfir", peerId |-> peerId, miftah |-> m,
                     input |-> plaintext, sequence |-> sequence,
                     seqKey |-> deriveSequenceKey(miftahs[m].masterSecret, sequence),
                     ciphertext |-> <<>>, after |-> Len(log)])
               /\ UNCHANGED <<keys, log>>

TashfirCall(peerId, plaintext) ==
  /\ TashfirStart(peerId, plaintext)
  /\ UNCHANGED <<barqVars, headerVars, nabdVars, saylVars, rotationVars, zbatVars, munVars>>

TashfirResume ==
  /\ calls # <<>>
  /\ Head(calls).op = "tashfir"
  /\ LET c == Head(calls) IN
       log' = Append(log, Returned(c.id, "tashfir", c.peerId, c.miftah, c.input, c.sequence,
                                   "Ok", TashfirResult(c.sequence, c.seqKey, c.input), c.after))
  /\ calls' = Tail(calls)
  /\ UNCHANGED <<keys, miftahs, nextCall>>
  /\ UNCHANGED <<barqVars, headerVars, nabdVars, saylVars, rotationVars, zbatVars, munVars>>

\* The lengths of the runs of tashfir calls: 2^32 - 1 and 2^32.
TashfirRunLengths == {<<W16 - 1, W16 - 1>>, <<W16, 0>>}

\* A run of n tashfir calls on a record whose counter is below 2^32, each
\* run to completion before the next, with nothing else in flight: each
\* call takes the next sequence, and the ciphertexts are not kept.
TashfirRun(peerId, n) ==
  /\ keys[peerId] # NoMiftah
  /\ calls = <<>>
  /\ miftahs[keys[peerId]].currentSequence[1] < W16
  /\ miftahs' = [miftahs EXCEPT ![keys[peerId]].currentSequence = NumAdd(@, n)]
  /\ UNCHANGED <<keys, calls, log, nextCall>>
  /\ UNCHANGED <<barqVars, headerVars, nabdVars, saylVars, rotationVars, zbatVars, munVars>>

\* The sequence prefix fakk reads from the decoded input.  With fewer than
\* 4 decoded bytes getUint32 either raises a RangeError (an exactly sized
\* buffer) or reads on into the Buffer pool (a pooled buffer).
FakkPrefixes(data) ==
  IF Len(data) >= 4 THEN {Take(data, 4)}
  ELSE {<<>>} \cup {data \o [i \in 1..(4 - Len(data)) |-> f] : f \in StaleBytes}

\* fakk up to its await: the lookup, the puncture check and the key
\* derivation all run before the call is suspended.
FakkStart(peerId, encryptedBase64) ==
  /\ nextCall < MaxCalls
  /\ nextCall' = nextCall + 1
  /\ IF keys[peerId] = NoMiftah
       THEN /\ log' = Append(log, Returned(nextCall, "fakk", peerId, NoMiftah, encryptedBase64,
                                           NoSequence, "NoKey", <<>>, Len(log)))
            /\ UNCHANGED <<keys, miftahs, calls>>
       ELSE \E prefix \in FakkPrefixes(FromBase64(encryptedBase64)) :
            LET m == keys[peerId]
                data == FromBase64(encryptedBase64)
                sequence == GetUint32(prefix, 0)
            IN IF prefix = <<>>
                 THEN /\ log' = Append(log, Returned(nextCall, "fakk", peerId, m, encryptedBase64,
                                                     NoSequence, "Raised", <<>>, Len(log)))
                      /\ UNCHANGED <<keys, miftahs, calls>>
               ELSE IF sequence \in miftahs[m].puncturedSequences
                 THEN /\ log' = Append(log, Returned(nextCall, "fakk", peerId, m, encryptedBase64,
                                                     sequence, "Replay", <<>>, Len(log)))
                      /\ UNCHANGED <<keys, miftahs, calls>>
               ELSE /\ calls' = Append(calls,
                         [id |-> nextCall, op |-> "fakk", peerId |-> peerId, miftah |-> m,
                          input |-> encryptedBase64, sequence |-> sequence,
                          seqKey |-> deriveSequenceKey(miftahs[m].masterSecret, sequence),
                          ciphertext |-> Slice(data, 4), after |-> Len(log)])
                    /\ UNCHANGED <<keys, miftahs, log>>

FakkCall(peerId, encryptedBase64) ==
  /\ FakkStart(peerId, encryptedBase64)
  /\ UNCHANGED <<barqVars, headerVars, nabdVars, saylVars, rotationVars, zbatVars, munVars>>

\* A fakk that looks the record up again after its await.
CapturedAgain(c) == IF keys[c.peerId] # NoMiftah THEN keys[c.peerId] ELSE c.miftah

\* const miftah = keys.get(peerId): the object a call holds across its
\* await is the one it found when it was called.
Captured(c) == c.miftah

\* fakk after its await.  Nothing in the try block can raise (the XOR loop
\* and a non-fatal TextDecoder), so the catch branch is never taken.
FakkResume ==
  /\ calls # <<>>
  /\ Head(calls).op = "fakk"
  /\ LET c == Head(calls) IN
       /\ miftahs' = [miftahs EXCEPT ![Captured(c)] = thaqb(@, c.sequence)]
       /\ log' = Append(log, Returned(c.id, "fakk", c.peerId, c.miftah, c.input, c.sequence,
                                      "Plain", FakkPlaintext(c.ciphertext, c.seqKey), c.after))
  /\ calls' = Tail(calls)
  /\ UNCHANGED <<keys, nextCall>>
  /\ UNCHANGED <<barqVars, headerVars, nabdVars, saylVars, rotationVars, zbatVars, munVars>>

ZeroizedKeepsPunctures(miftah) ==
  [miftah EXCEPT !.masterSecret = [i \in DOMAIN @ |-> 0]]

\* masterSecret.fill(0) and puncturedSequences.clear()
Zeroized(miftah) ==
  [miftah EXCEPT !.masterSecret = [i \in DOMAIN @ |-> 0], !.puncturedSequences = {}]

aghlaqa(peerId) ==
  /\ IF keys[peerId] = NoMiftah
       THEN UNCHANGED <<keys, miftahs>>
       ELSE /\ miftahs' = [miftahs EXCEPT ![keys[peerId]] = Zeroized(@)]
            /\ keys' = [keys EXCEPT ![peerId] = NoMiftah]
  /\ UNCHANGED <<calls, log, nextCall>>
  /\ UNCHANGED <<barqVars, headerVars, nabdVars, saylVars, rotationVars, zbatVars, munVars>>

MiftahInit ==
  /\ keys = [p \in Peers |-> NoMiftah]
  /\ miftahs = <<>>
  /\ calls = <<>>
  /\ log = <<>>
  /\ nextCall = 0

MiftahNext ==
  \/ \E p \in Peers : fataha(p, MyPrivateKey, PeerPublicKey(p))
  \/ \E p \in Peers, t \in Plaintexts : TashfirCall(p, t)
  \/ TashfirResume
  \/ \E p \in Peers, t \in FakkInputs : FakkCall(p, t)
  \/ FakkResume
  \/ \E p \in Peers : aghlaqa(p)

\* ------------------------------------------------------------------------
\* Barq: header codec
\* ------------------------------------------------------------------------

BARQ_VERSION == 1

BARQ_HEADER_SIZE == 16

DATA == 1

ACK == 2

CLOSE == 6

NoHeader == [null |-> TRUE]

\* An encodeHeader that writes the two halves of a 32-bit field in the
\* wrong order.
encodeHeaderSwapped(h) ==
  LET seq == SetUint32(h.sequence) IN
  <<66, 81>> \o SetUint8(h.version) \o SetUint8(h.type)
  \o <<seq[3], seq[4], seq[1], seq[2]>>
  \o SetUint32(AndFFFFFFFF(h.timestamp))
  \o SetUint16(h.length) \o SetUint16(h.flags)

encodeHeader(h) ==
  <<66, 81>> \o SetUint8(h.version) \o SetUint8(h.type)
  \o SetUint32(h.sequence)
  \o SetUint32(AndFFFFFFFF(h.timestamp))
  \o SetUint16(h.length) \o SetUint16(h.flags)

\* A decodeHeader that skips the magic check.
decodeHeaderAnyMagic(data) ==
  IF Len(data) < BARQ_HEADER_SIZE THEN NoHeader
  ELSE [version |-> GetUint8(data, 2), type |-> GetUint8(data, 3),
        sequence |-> GetUint32(data, 4), timestamp |-> GetUint32(data, 8),
        length |-> GetUint16(data, 12), flags |-> GetUint16(data, 14)]

decodeHeader(data) ==
  IF Len(data) < BARQ_HEADER_SIZE THEN NoHeader
  ELSE IF GetUint8(data, 0) # 66 \/ GetUint8(data, 1) # 81 THEN NoHeader
  ELSE [version |-> GetUint8(data, 2), type |-> GetUint8(data, 3),
        sequence |-> GetUint32(data, 4), timestamp |-> GetUint32(data, 8),
        length |-> GetUint16(data, 12), flags |-> GetUint16(data, 14)]

\* Field values at and next to the ends of each field's range.
Bytes8 == {0, 1, 255}

Words16 == {0, 1200, 65535}

Words32 == {<<0, 0>>, <<0, 65535>>, <<32767, 65535>>, <<32768, 0>>, <<65535, 65535>>}

HeaderInit ==
  /\ header \in [version : Bytes8, type : {0, DATA, CLOSE, 255}, sequence : Words32,
                 timestamp : Words32, length : Words16, flags : Words16]
  /\ encoded = <<>>
  /\ decoded = NoHeader
  /\ hpc = "start"

Encode ==
  /\ hpc = "start"
  /\ encoded' = encodeHeader(header)
  /\ hpc' = "encoded"
  /\ UNCHANGED <<header, decoded>>
  /\ UNCHANGED <<miftahVars, barqVars, nabdVars, saylVars, rotationVars, zbatVars, munVars>>

Decode ==
  /\ hpc = "encoded"
  /\ decoded' = decodeHeader(encoded)
  /\ hpc' = "decoded"
  /\ UNCHANGED <<header, encoded>>
  /\ UNCHANGED <<miftahVars, barqVars, nabdVars, saylVars, rotationVars, zbatVars, munVars>>

HeaderNext == Encode \/ Decode

\* ------------------------------------------------------------------------
\* Barq: connections and packets
\* ------------------------------------------------------------------------

\* Calls of createConnection, createDataPacket and processPacket made in
\* one behaviour.
MaxBarqCalls == 4

\* Clock advances in one behaviour.
MaxTicks == 1

\* Date.now() at the start: 20 ms before its low 32 bits wrap around.
ClockStart == <<396 * W16 - 1, W16 - 20>>

\* Milliseconds by which the clock advances in one step.
ClockStep == 40

DEFAULT_RTT == 100

NoConn == 0

deriveSecret(senderPrivateKey, recipientPublicKey) ==
  sha256(senderPrivateKey \o recipientPublicKey)

encryptPayload(secret, sequence, plaintext) ==
  XorWithKey(plaintext, sha256(secret \o SetUint32(sequence)))

\* The try block cannot raise, so the result is always an array and never
\* null.
decryptPayload(secret, sequence, ciphertext) ==
  XorWithKey(ciphertext, sha256(secret \o SetUint32(sequence)))

\* connections.get(peerId): the connection object, or NoConn.
ConnOf(map, peerId) ==
  IF \E i \in DOMAIN map : map[i][1] = peerId
    THEN map[CHOOSE i \in DOMAIN map : map[i][1] = peerId][2]
    ELSE NoConn

\* connections.set(peerId, c): an existing key keeps its place in the
\* iteration order, a new key goes last.
MapSet(map, peerId, c) ==
  IF \E i \in DOMAIN map : map[i][1] = peerId
    THEN [i \in DOMAIN map |-> IF map[i][1] = peerId THEN <<peerId, c>> ELSE map[i]]
    ELSE Append(map, <<peerId, c>>)

\* connections.delete(peerId).
MapDelete(map, peerId) == SelectSeq(map, LAMBDA e : e[1] # peerId)

\* A connection that starts with a sequence already used up.
NewConnectionOffByOne(peerId, secret, time) ==
  [peerId |-> peerId, sharedSecret |-> secret, sendSequence |-> NumOf(1),
   recvSequence |-> NumOf(0), rtt |-> [base |-> DEFAULT_RTT, samples |-> <<>>],
   lastSeen |-> time, pendingAcks |-> {}, created |-> time]

\* The object createConnection builds.  rtt is kept as the initial estimate
\* and the samples folded into it by rtt * 0.8 + sample * 0.2.
NewConnection(peerId, secret, time) ==
  [peerId |-> peerId, sharedSecret |-> secret, sendSequence |-> NumOf(0),
   recvSequence |-> NumOf(0), rtt |-> [base |-> DEFAULT_RTT, samples |-> <<>>],
   lastSeen |-> time, pendingAcks |-> {}, created |-> time]

BReturned(id, op, peerId, conn, input, sequence, outcome, value, open, after) ==
  [id |-> id, op |-> op, peerId |-> peerId, conn |-> conn, input |-> input,
   sequence |-> sequence, outcome |-> outcome, value |-> value, open |-> open,
   after |-> after]

BFrame(id, op, peerId, conn, input, sequence, work) ==
  [id |-> id, op |-> op, peerId |-> peerId, conn |-> conn, input |-> input,
   sequence |-> sequence, work |-> work, open |-> connections, after |-> Len(blog)]

\* createConnection up to its await of deriveSecret.
CreateConnectionCall(myPrivateKey, peerId, peerPublicKey) ==
  /\ bnextCall < MaxBarqCalls
  /\ bnextCall' = bnextCall + 1
  /\ bcalls' = Append(bcalls, BFrame(bnextCall, "createConnection", peerId, NoConn, <<>>,
                                     NoSequence, deriveSecret(myPrivateKey, peerPublicKey)))
  /\ UNCHANGED <<connections, conns, blog, now, ticks>>
  /\ UNCHANGED <<miftahVars, headerVars, nabdVars, saylVars, rotationVars, zbatVars, munVars>>

\* createConnection after its await: the object is built and stored.
CreateConnectionResume ==
  /\ bcalls # <<>>
  /\ Head(bcalls).op = "createConnection"
  /\ LET c == Head(bcalls)
         conn == NewConnection(c.peerId, c.work, now)
     IN /\ conns' = Append(conns, conn)
        /\ connections' = MapSet(connections, c.peerId, Len(conns) + 1)
        /\ blog' = Append(blog, BReturned(c.id, c.op, c.peerId, Len(conns) + 1, <<>>,
                                          NoSequence, "Connection", conn, c.open, c.after))
  /\ bcalls' = Tail(bcalls)
  /\ UNCHANGED <<bnextCall, now, ticks>>
  /\ UNCHANGED <<miftahVars, headerVars, nabdVars, saylVars, rotationVars, zbatVars, munVars>>

\* createDataPacket up to its await of encryptPayload: the lookup,
\* sendSequence++ and the encryption run before the call is suspended.
CreateDataPacketCall(peerId, data) ==
  /\ bnextCall < MaxBarqCalls
  /\ bnextCall' = bnextCall + 1
  /\ LET c == ConnOf(connections, peerId) IN
     IF c = NoConn
       THEN /\ blog' = Append(blog, BReturned(bnextCall, "createDataPacket", peerId, NoConn, data,
                                              NoSequence, "Null", <<>>, connections, Len(blog)))
            /\ UNCHANGED <<connections, conns, bcalls, now, ticks>>
       ELSE LET sequence == conns[c].sendSequence IN
            /\ conns' = [conns EXCEPT ![c].sendSequence = NumInc(@)]
            /\ bcalls' = Append(bcalls,
                 BFrame(bnextCall, "createDataPacket", peerId, c, data, sequence,
                        encryptPayload(conns[c].sharedSecret, sequence, TextEncode(data))))
            /\ UNCHANGED <<connections, blog, now, ticks>>
  /\ UNCHANGED <<miftahVars, headerVars, nabdVars, saylVars, rotationVars, zbatVars, munVars>>

\* A packet whose length field counts the header as well.
DataPacketWholeLength(sequence, time, payload) ==
  encodeHeader([version |-> BARQ_VERSION, type |-> DATA, sequence |-> sequence,
                timestamp |-> AndFFFFFFFF(time),
                length |-> BARQ_HEADER_SIZE + Len(payload), flags |-> 0])
  \o payload

\* The bytes createDataPacket returns: header, then ciphertext.
DataPacket(sequence, time, payload) ==
  encodeHeader([version |-> BARQ_VERSION, type |-> DATA, sequence |-> sequence,
                timestamp |-> AndFFFFFFFF(time), length |-> Len(payload), flags |-> 0])
  \o payload

CreateDataPacketResume ==
  /\ bcalls # <<>>
  /\ Head(bcalls).op = "createDataPacket"
  /\ LET c == Head(bcalls) IN
       /\ conns' = [conns EXCEPT ![c.conn].pendingAcks = @ \cup {c.sequence}]
       /\ blog' = Append(blog, BReturned(c.id, c.op, c.peerId, c.conn, c.input, c.sequence,
                                         "Packet", DataPacket(c.sequence, now, c.work),
                                         c.open, c.after))
  /\ bcalls' = Tail(bcalls)
  /\ UNCHANGED <<connections, bnextCall, now, ticks>>
  /\ UNCHANGED <<miftahVars, headerVars, nabdVars, saylVars, rotationVars, zbatVars, munVars>>

\* processPacket up to its first await: a header that does not decode, or
\* an empty Map, returns null at once; otherwise the payload is decrypted
\* with the secret of the first connection in iteration order.
ProcessPacketCall(data) ==
  /\ bnextCall < MaxBarqCalls
  /\ bnextCall' = bnextCall + 1
  /\ LET h == decodeHeader(data) IN
     IF h = NoHeader \/ connections = <<>>
       THEN /\ blog' = Append(blog, BReturned(bnextCall, "processPacket", "", NoConn, data,
                                              NoSequence, "Null", <<>>, connections, Len(blog)))
            /\ UNCHANGED <<connections, conns, bcalls, now, ticks>>
       ELSE LET peerId == connections[1][1]
                c == connections[1][2]
            IN /\ bcalls' = Append(bcalls,
                    BFrame(bnextCall, "processPacket", peerId, c, data, h.sequence,
                           decryptPayload(conns[c].sharedSecret, h.sequence,
                                          Slice(data, BARQ_HEADER_SIZE))))
               /\ UNCHANGED <<connections, conns, blog, now, ticks>>
  /\ UNCHANGED <<miftahVars, headerVars, nabdVars, saylVars, rotationVars, zbatVars, munVars>>

\* The ACK branch: the sequence leaves pendingAcks and the RTT sample
\* (now - timestamp + 2^32) % 2^32 is folded into rtt.
OnAck(conn, h, time) ==
  [conn EXCEPT !.pendingAcks = @ \ {h.sequence},
               !.rtt.samples = Append(@, RemTwo32(NumAdd(NumSub(AndFFFFFFFF(time), h.timestamp),
                                                         <<W16, 0>>)))]

\* processPacket after its await: `decrypted` is an array, hence truthy, so
\* the first connection always takes the packet.
ProcessPacketResume ==
  /\ bcalls # <<>>
  /\ Head(bcalls).op = "processPacket"
  /\ LET c == Head(bcalls)
         h == decodeHeader(c.input)
         acked == IF h.type = ACK THEN OnAck(conns[c.conn], h, now) ELSE conns[c.conn]
     IN /\ conns' = [conns EXCEPT ![c.conn] =
                       [acked EXCEPT !.lastSeen = now,
                                     !.recvSequence = NumMax(@, NumInc(h.sequence))]]
        /\ blog' = Append(blog, BReturned(c.id, c.op, c.peerId, c.conn, c.input, c.sequence,
                                          "Payload", TextDecode(c.work), c.open, c.after))
  /\ bcalls' = Tail(bcalls)
  /\ UNCHANGED <<connections, bnextCall, now, ticks>>
  /\ UNCHANGED <<miftahVars, headerVars, nabdVars, saylVars, rotationVars, zbatVars, munVars>>

closeConnection(peerId) ==
  /\ ConnOf(connections, peerId) # NoConn
  /\ connections' = MapDelete(connections, peerId)
  /\ UNCHANGED <<conns, bcalls, blog, bnextCall, now, ticks>>
  /\ UNCHANGED <<miftahVars, headerVars, nabdVars, saylVars, rotationVars, zbatVars, munVars>>

\* The clock advances.  Date.now() is only read when a suspended call
\* resumes, so an advance is taken while a call is waiting to resume.
Tick ==
  /\ ticks < MaxTicks
  /\ bcalls # <<>>
  /\ ticks' = ticks + 1
  /\ now' = NumAdd(now, NumOf(ClockStep))
  /\ UNCHANGED <<connections, conns, bcalls, blog, bnextCall>>
  /\ UNCHANGED <<miftahVars, headerVars, nabdVars, saylVars, rotationVars, zbatVars, munVars>>

\* The packets createDataPacket has returned so far.
Packets ==
  {blog[i].value : i \in {j \in DOMAIN blog :
                            blog[j].op = "createDataPacket" /\ blog[j].outcome = "Packet"}}

\* What the network may hand to processPacket: the packets sent, and copies
\* cut below the header size, with a wrong magic byte, retyped as ACK, or
\* retyped as ACK and stamped by a peer whose clock is ahead (the low byte
\* of the timestamp is 255).
Datagrams ==
  Packets \cup {Take(d, BARQ_HEADER_SIZE - 1) : d \in Packets}
          \cup {[d EXCEPT ![2] = 0] : d \in Packets}
          \cup {[d EXCEPT ![4] = ACK] : d \in Packets}
          \cup {[d EXCEPT ![4] = ACK, ![12] = 255] : d \in Packets}

\* Strings handed to createDataPacket: "hi" and the Arabic letter seen.
BarqData == {<<104, 105>>, <<1587>>}

BarqInit ==
  /\ connections = <<>>
  /\ conns = <<>>
  /\ bcalls = <<>>
  /\ blog = <<>>
  /\ bnextCall = 0
  /\ now = ClockStart
  /\ ticks = 0

BarqNext ==
  \/ \E p \in Peers : CreateConnectionCall(MyPrivateKey, p, PeerPublicKey(p))
  \/ CreateConnectionResume
  \/ \E p \in Peers, d \in BarqData : CreateDataPacketCall(p, d)
  \/ CreateDataPacketResume
  \/ \E d \in Datagrams : ProcessPacketCall(d)
  \/ ProcessPacketResume
  \/ \E p \in Peers : closeConnection(p)
  \/ Tick

\* ------------------------------------------------------------------------
\* Nabd: pulse timing and gap tracking (NabdTiming)
\* ------------------------------------------------------------------------

NABD_PULSE_INTERVAL == 100

NABD_LOSS_THRESHOLD == 3

\* Sequence numbers handed to onReceive are 0 .. MaxSequence.
MaxSequence == 3

\* The clock advances in steps of NabdClockStep ms up to MaxNabdClock ms.
NabdClockStep == 100

MaxNabdClock == 300

\* At most MaxNabdCalls calls are made.
MaxNabdCalls == 5

\* states.get(peerId) of a peer without state.
NoState == [undefined |-> TRUE]

Sequences == 0 .. MaxSequence

\* Set.prototype.add on a Set kept as the sequence of its members in
\* insertion order.
SetAdd(set, x) ==
  IF \E i \in DOMAIN set : set[i] = x THEN set ELSE Append(set, x)

\* Set.prototype.delete.
SetDelete(set, x) == SelectSeq(set, LAMBDA y : y # x)

MathMaxSecond(a, b) == b

\* Math.max on integers.
MathMax(a, b) == IF a >= b THEN a ELSE b

\* The object initTiming stores.
NewNabdState(peerId) ==
  [peerId |-> peerId,
   expectedSequence |-> 0,
   lastPulse |-> nclock,
   missedPulses |-> 0,
   gaps |-> <<>>,
   lastReceived |-> nclock]

\* What a call returned: its name and arguments (sequence -1 when it has
\* none), the peer's state object before the call, and the value.
NabdReturned(op, peerId, sequence, value) ==
  [op |-> op, peerId |-> peerId, sequence |-> sequence,
   before |-> states[peerId], value |-> value]

initTiming(peerId) ==
  /\ ncalls < MaxNabdCalls
  /\ ncalls' = ncalls + 1
  /\ states' = [states EXCEPT ![peerId] = NewNabdState(peerId)]
  /\ received' = [received EXCEPT ![peerId] = {}]
  /\ nret' = NabdReturned("initTiming", peerId, -1, <<>>)
  /\ UNCHANGED <<pulses, nclock>>
  /\ UNCHANGED <<miftahVars, barqVars, headerVars, saylVars, rotationVars, zbatVars, munVars>>

RECURSIVE GapLoopInclusive(_, _, _, _)
GapLoopInclusive(i, sequence, gaps, nacks) ==
  IF i <= sequence
    THEN GapLoopInclusive(i + 1, sequence, SetAdd(gaps, i), Append(nacks, i))
    ELSE [gaps |-> gaps, nacks |-> nacks]

\* The loop of onReceive: i runs from expectedSequence up to sequence - 1,
\* each i is added to the gaps and pushed on the nacks.
RECURSIVE GapLoop(_, _, _, _)
GapLoop(i, sequence, gaps, nacks) ==
  IF i < sequence
    THEN GapLoop(i + 1, sequence, SetAdd(gaps, i), Append(nacks, i))
    ELSE [gaps |-> gaps, nacks |-> nacks]

\* The state object and the nacks after onReceive on a peer with state.
ReceiveKeepsGap(state, sequence) ==
  LET loop == IF sequence > state.expectedSequence
                THEN GapLoop(state.expectedSequence, sequence, state.gaps, <<>>)
                ELSE [gaps |-> state.gaps, nacks |-> <<>>]
  IN  [state |-> [state EXCEPT
                    !.lastReceived = nclock,
                    !.missedPulses = 0,
                    !.gaps = loop.gaps,
                    !.expectedSequence = MathMax(state.expectedSequence, sequence + 1)],
       nacks |-> loop.nacks]

\* The state object and the nacks after onReceive on a peer with state.
Receive(state, sequence) ==
  LET loop == IF sequence > state.expectedSequence
                THEN GapLoop(state.expectedSequence, sequence, state.gaps, <<>>)
                ELSE [gaps |-> state.gaps, nacks |-> <<>>]
  IN  [state |-> [state EXCEPT
                    !.lastReceived = nclock,
                    !.missedPulses = 0,
                    !.gaps = SetDelete(loop.gaps, sequence),
                    !.expectedSequence = MathMax(state.expectedSequence, sequence + 1)],
       nacks |-> loop.nacks]

onReceive(peerId, sequence) ==
  /\ ncalls < MaxNabdCalls
  /\ ncalls' = ncalls + 1
  /\ IF states[peerId] = NoState
       THEN /\ nret' = NabdReturned("onReceive", peerId, sequence, <<>>)
            /\ UNCHANGED <<states, received>>
       ELSE LET r == Receive(states[peerId], sequence)
            IN  /\ states' = [states EXCEPT ![peerId] = r.state]
                /\ received' = [received EXCEPT ![peerId] = @ \cup {sequence}]
                /\ nret' = NabdReturned("onReceive", peerId, sequence, r.nacks)
  /\ UNCHANGED <<pulses, nclock>>
  /\ UNCHANGED <<miftahVars, barqVars, headerVars, saylVars, rotationVars, zbatVars, munVars>>

PulseDueLate(state) == nclock - state.lastPulse > NABD_PULSE_INTERVAL

\* elapsed >= NABD_PULSE_INTERVAL in shouldPulse.
PulseDue(state) == nclock - state.lastPulse >= NABD_PULSE_INTERVAL

shouldPulse(peerId) ==
  /\ ncalls < MaxNabdCalls
  /\ ncalls' = ncalls + 1
  /\ IF states[peerId] = NoState
       THEN /\ nret' = NabdReturned("shouldPulse", peerId, -1, FALSE)
            /\ UNCHANGED <<states, pulses>>
       ELSE IF PulseDue(states[peerId])
         THEN /\ states' = [states EXCEPT ![peerId].lastPulse = nclock]
              /\ pulses' = [pulses EXCEPT ![peerId] = Append(@, nclock)]
              /\ nret' = NabdReturned("shouldPulse", peerId, -1, TRUE)
         ELSE /\ nret' = NabdReturned("shouldPulse", peerId, -1, FALSE)
              /\ UNCHANGED <<states, pulses>>
  /\ UNCHANGED <<received, nclock>>
  /\ UNCHANGED <<miftahVars, barqVars, headerVars, saylVars, rotationVars, zbatVars, munVars>>

HealthyAtThreshold(state) ==
  nclock - state.lastReceived <= NABD_PULSE_INTERVAL * NABD_LOSS_THRESHOLD

\* age < NABD_PULSE_INTERVAL * NABD_LOSS_THRESHOLD in isHealthy.
Healthy(state) ==
  nclock - state.lastReceived < NABD_PULSE_INTERVAL * NABD_LOSS_THRESHOLD

isHealthy(peerId) ==
  /\ ncalls < MaxNabdCalls
  /\ ncalls' = ncalls + 1
  /\ nret' = NabdReturned("isHealthy", peerId, -1,
               IF states[peerId] = NoState
                 THEN FALSE
                 ELSE Healthy(states[peerId]))
  /\ UNCHANGED <<states, received, pulses, nclock>>
  /\ UNCHANGED <<miftahVars, barqVars, headerVars, saylVars, rotationVars, zbatVars, munVars>>

getGaps(peerId) ==
  /\ ncalls < MaxNabdCalls
  /\ ncalls' = ncalls + 1
  /\ nret' = NabdReturned("getGaps", peerId, -1,
               IF states[peerId] = NoState THEN <<>> ELSE states[peerId].gaps)
  /\ UNCHANGED <<states, received, pulses, nclock>>
  /\ UNCHANGED <<miftahVars, barqVars, headerVars, saylVars, rotationVars, zbatVars, munVars>>

NabdCleanup(peerId) ==
  /\ ncalls < MaxNabdCalls
  /\ ncalls' = ncalls + 1
  /\ states' = [states EXCEPT ![peerId] = NoState]
  /\ received' = [received EXCEPT ![peerId] = {}]
  /\ nret' = NabdReturned("cleanup", peerId, -1, <<>>)
  /\ UNCHANGED <<pulses, nclock>>
  /\ UNCHANGED <<miftahVars, barqVars, headerVars, saylVars, rotationVars, zbatVars, munVars>>

\* Time passes.
NabdTick ==
  /\ nclock + NabdClockStep <= MaxNabdClock
  /\ nclock' = nclock + NabdClockStep
  /\ UNCHANGED <<states, received, pulses, nret, ncalls>>
  /\ UNCHANGED <<miftahVars, barqVars, headerVars, saylVars, rotationVars, zbatVars, munVars>>

NabdInit ==
  /\ states = [p \in Peers |-> NoState]
  /\ received = [p \in Peers |-> {}]
  /\ pulses = [p \in Peers |-> <<>>]
  /\ nclock = 0
  /\ ncalls = 0
  /\ nret = [op |-> "none", peerId |-> "none", sequence |-> -1,
             before |-> NoState, value |-> <<>>]

NabdNext ==
  \/ \E p \in Peers : initTiming(p)
  \/ \E p \in Peers, s \in Sequences : onReceive(p, s)
  \/ \E p \in Peers : shouldPulse(p)
  \/ \E p \in Peers : isHealthy(p)
  \/ \E p \in Peers : getGaps(p)
  \/ \E p \in Peers : NabdCleanup(p)
  \/ NabdTick

\* ------------------------------------------------------------------------
\* Sayl: flow control (SaylFlow)
\* ------------------------------------------------------------------------

\* The window, the round-trip times and the bandwidth are fractions. A
\* fraction is the pair <<numerator, denominator>> in lowest terms with a
\* positive denominator, and the arithmetic on fractions is exact: the
\* rounding of the last binary digit of a double is left out. <<1, 0>> is
\* Infinity.

RECURSIVE GCD(_, _)
GCD(a, b) == IF b = 0 THEN a ELSE GCD(b, a % b)

Abs(a) == IF a < 0 THEN -a ELSE a

\* n / d in lowest terms, d > 0.
Frac(n, d) == LET g == GCD(Abs(n), d) IN <<n \div g, d \div g>>

FracOf(n) == <<n, 1>>

Infinity == <<1, 0>>

FracAdd(a, b) == Frac(a[1] * b[2] + b[1] * a[2], a[2] * b[2])

FracScale(a, n, d) == Frac(a[1] * n, a[2] * d)

\* a / b < c / d for a, c >= 0 and b, d > 0, by whole parts and then by
\* the reciprocals of the remainders, so that no product is formed.
RECURSIVE LessBy(_, _, _, _)
LessBy(a, b, c, d) ==
  IF a \div b # c \div d THEN a \div b < c \div d
  ELSE IF c % d = 0 THEN FALSE
  ELSE IF a % b = 0 THEN TRUE
  ELSE LessBy(d, c % d, b, a % b)

\* a < b on fractions that are not negative.
FracLess(a, b) ==
  IF a = Infinity THEN FALSE
  ELSE IF b = Infinity THEN TRUE
  ELSE LessBy(a[1], a[2], b[1], b[2])

\* Math.min and Math.max.
FracMin(a, b) == IF FracLess(b, a) THEN b ELSE a

FracMax(a, b) == IF FracLess(a, b) THEN b ELSE a

\* Math.floor of a fraction that is not negative.
FracFloor(a) == a[1] \div a[2]

\* a / b and a * b kept as written, without working them out.
Quotient(a, b) == <<"quotient", a, b>>

Product(a, b) == <<"product", a, b>>

INITIAL_CWND == 10

MIN_CWND == 2

MAX_CWND == 100

INITIAL_RTT == 100

\* At most MaxSaylCalls calls are made.
MaxSaylCalls == 6

\* At most MaxFlows SaylState objects are created.
MaxFlows == 2

\* The clock advances in steps of SaylClockStep ms up to MaxSaylClock ms.
SaylClockStep == 100

MaxSaylClock == 300

\* onAck is applied to a growing window while the numerator of the window
\* is at most MaxWindowNumerator.
MaxWindowNumerator == 32767

\* Number of calls in a run of onAck calls.
AckRunLength == 10000

\* Byte counts handed to onSend and to onAck, round-trip times handed to
\* onAck.
SendBytes == {600}

AckBytes == {1200}

Rtts == {0, 100}

\* flows.get(peerId) of a peer without flow state.
NoFlow == [undefined |-> TRUE]

\* The object initFlow stores; id is the identity of the object.
NewFlow(peerId) ==
  [id |-> nextFlow + 1,
   peerId |-> peerId,
   congestionWindow |-> FracOf(INITIAL_CWND),
   bytesInFlight |-> 0,
   packetsInFlight |-> 0,
   bandwidth |-> FracOf(0),
   rttMin |-> Infinity,
   rttSmoothed |-> FracOf(INITIAL_RTT),
   throttled |-> FALSE]

\* What a call returned: its name and arguments, the peer's flow object
\* before the call, and the value.
SaylReturned(op, peerId, args, value) ==
  [op |-> op, peerId |-> peerId, args |-> args,
   before |-> flows[peerId], value |-> value]

initFlow(peerId) ==
  /\ scalls < MaxSaylCalls
  /\ scalls' = scalls + 1
  /\ nextFlow < MaxFlows
  /\ flows' = [flows EXCEPT ![peerId] = NewFlow(peerId)]
  /\ nextFlow' = nextFlow + 1
  /\ sret' = SaylReturned("initFlow", peerId, <<>>, <<>>)
  /\ UNCHANGED <<timers, sclock>>
  /\ UNCHANGED <<miftahVars, barqVars, headerVars, nabdVars, rotationVars, zbatVars, munVars>>

SendableAtWindow(flow) ==
  IF flow = NoFlow
    THEN TRUE
    ELSE ~FracLess(flow.congestionWindow, FracOf(flow.packetsInFlight))

\* What canSend returns.
Sendable(flow) ==
  IF flow = NoFlow
    THEN TRUE
    ELSE FracLess(FracOf(flow.packetsInFlight), flow.congestionWindow)

canSend(peerId) ==
  /\ scalls < MaxSaylCalls
  /\ scalls' = scalls + 1
  /\ sret' = SaylReturned("canSend", peerId, <<>>, Sendable(flows[peerId]))
  /\ UNCHANGED <<flows, timers, nextFlow, sclock>>
  /\ UNCHANGED <<miftahVars, barqVars, headerVars, nabdVars, rotationVars, zbatVars, munVars>>

onSend(peerId, bytes) ==
  /\ scalls < MaxSaylCalls
  /\ scalls' = scalls + 1
  /\ IF flows[peerId] = NoFlow
       THEN UNCHANGED flows
       ELSE flows' = [flows EXCEPT
                        ![peerId].bytesInFlight = @ + bytes,
                        ![peerId].packetsInFlight = @ + 1]
  /\ sret' = SaylReturned("onSend", peerId, <<bytes>>, <<>>)
  /\ UNCHANGED <<timers, nextFlow, sclock>>
  /\ UNCHANGED <<miftahVars, barqVars, headerVars, nabdVars, rotationVars, zbatVars, munVars>>

AdditiveIncreaseUncapped(congestionWindow) ==
  FracAdd(congestionWindow, <<congestionWindow[2], congestionWindow[1]>>)

AdditiveIncreaseShrinks(congestionWindow) ==
  FracMin(FracOf(MAX_CWND),
          FracAdd(congestionWindow, <<-congestionWindow[2], congestionWindow[1]>>))

\* Math.min(MAX_CWND, congestionWindow + 1 / congestionWindow)
AdditiveIncrease(congestionWindow) ==
  FracMin(FracOf(MAX_CWND),
          FracAdd(congestionWindow, <<congestionWindow[2], congestionWindow[1]>>))

AckedNoFloor(flow, bytes, rtt) ==
  [flow EXCEPT
     !.bytesInFlight = flow.bytesInFlight - bytes,
     !.packetsInFlight = flow.packetsInFlight - 1,
     !.rttMin = FracMin(flow.rttMin, FracOf(rtt)),
     !.rttSmoothed = FracAdd(FracScale(flow.rttSmoothed, 7, 8), Frac(rtt, 8)),
     !.bandwidth = IF rtt > 0
                     THEN FracAdd(FracScale(flow.bandwidth, 9, 10),
                                  Frac(bytes * 1000, rtt * 10))
                     ELSE flow.bandwidth,
     !.congestionWindow = IF ~flow.throttled
                            THEN AdditiveIncrease(flow.congestionWindow)
                            ELSE flow.congestionWindow]

\* The flow object after onAck.
Acked(flow, bytes, rtt) ==
  [flow EXCEPT
     !.bytesInFlight = MathMax(0, flow.bytesInFlight - bytes),
     !.packetsInFlight = MathMax(0, flow.packetsInFlight - 1),
     !.rttMin = FracMin(flow.rttMin, FracOf(rtt)),
     !.rttSmoothed = FracAdd(FracScale(flow.rttSmoothed, 7, 8), Frac(rtt, 8)),
     !.bandwidth = IF rtt > 0
                     THEN FracAdd(FracScale(flow.bandwidth, 9, 10),
                                  Frac(bytes * 1000, rtt * 10))
                     ELSE flow.bandwidth,
     !.congestionWindow = IF ~flow.throttled
                            THEN AdditiveIncrease(flow.congestionWindow)
                            ELSE flow.congestionWindow]

onAck(peerId, bytes, rtt) ==
  /\ scalls < MaxSaylCalls
  /\ scalls' = scalls + 1
  /\ IF flows[peerId] = NoFlow
       THEN UNCHANGED flows
       ELSE /\ flows[peerId].throttled
               \/ flows[peerId].congestionWindow[1] <= MaxWindowNumerator
            /\ flows' = [flows EXCEPT ![peerId] = Acked(flows[peerId], bytes, rtt)]
  /\ sret' = SaylReturned("onAck", peerId, <<bytes, rtt>>, <<>>)
  /\ UNCHANGED <<timers, nextFlow, sclock>>
  /\ UNCHANGED <<miftahVars, barqVars, headerVars, nabdVars, rotationVars, zbatVars, munVars>>

\* AckRunLength calls onAck(peerId, 0, 100) in a row, on a flow that is not
\* throttled, has rttSmoothed 100 and bandwidth 0. Each call leaves
\* rttSmoothed (100 * 0.875 + 100 * 0.125) and bandwidth (0 * 0.9 + 0 * 0.1)
\* as they are, takes one packet out of flight down to 0, and adds at
\* least 1 / MAX_CWND to the window until Math.min caps it, which takes
\* fewer than AckRunLength calls from any window.
onAckRepeated(peerId) ==
  /\ scalls < MaxSaylCalls
  /\ scalls' = scalls + 1
  /\ flows[peerId] # NoFlow
  /\ ~flows[peerId].throttled
  /\ flows[peerId].rttSmoothed = FracOf(INITIAL_RTT)
  /\ flows[peerId].bandwidth = FracOf(0)
  /\ flows' = [flows EXCEPT
                 ![peerId].packetsInFlight = MathMax(0, @ - AckRunLength),
                 ![peerId].rttMin = FracMin(@, FracOf(INITIAL_RTT)),
                 ![peerId].congestionWindow = FracOf(MAX_CWND)]
  /\ sret' = SaylReturned("onAckRepeated", peerId, <<0, INITIAL_RTT>>, <<>>)
  /\ UNCHANGED <<timers, nextFlow, sclock>>
  /\ UNCHANGED <<miftahVars, barqVars, headerVars, nabdVars, rotationVars, zbatVars, munVars>>

MultiplicativeDecreaseRounds(congestionWindow) ==
  FracOf(MathMax(MIN_CWND, FracFloor(FracScale(congestionWindow, 1, 2)) + 1))

\* Math.max(MIN_CWND, Math.floor(congestionWindow / 2))
MultiplicativeDecrease(congestionWindow) ==
  FracOf(MathMax(MIN_CWND, FracFloor(FracScale(congestionWindow, 1, 2))))

\* The callback onLoss hands to setTimeout: the flow object it will clear
\* and the time it is due, now + rttSmoothed * 2.
RecoveryTimer(flow) ==
  [peerId |-> flow.peerId,
   flow |-> flow.id,
   due |-> FracAdd(FracOf(sclock), FracScale(flow.rttSmoothed, 2, 1))]

onLoss(peerId) ==
  /\ scalls < MaxSaylCalls
  /\ scalls' = scalls + 1
  /\ IF flows[peerId] = NoFlow
       THEN UNCHANGED <<flows, timers>>
       ELSE /\ flows' = [flows EXCEPT
                           ![peerId].congestionWindow = MultiplicativeDecrease(@),
                           ![peerId].throttled = TRUE]
            /\ timers' = Append(timers, RecoveryTimer(flows[peerId]))
  /\ sret' = SaylReturned("onLoss", peerId, <<>>, <<>>)
  /\ UNCHANGED <<nextFlow, sclock>>
  /\ UNCHANGED <<miftahVars, barqVars, headerVars, nabdVars, rotationVars, zbatVars, munVars>>

\* The timer is due.
Due(timer) == ~FracLess(FracOf(sclock), timer.due)

\* timers without its i-th member.
Without(seq, i) == [j \in 1 .. (Len(seq) - 1) |-> IF j < i THEN seq[j] ELSE seq[j + 1]]

\* A recovery timer fires: its callback clears throttled on the flow object
\* it captured, which may no longer be the one in the Map.
RecoveryTimerFires ==
  \E i \in DOMAIN timers :
    /\ Due(timers[i])
    /\ LET peerId == timers[i].peerId
       IN  /\ IF flows[peerId] # NoFlow /\ flows[peerId].id = timers[i].flow
                THEN flows' = [flows EXCEPT ![peerId].throttled = FALSE]
                ELSE UNCHANGED flows
           /\ sret' = SaylReturned("timer", peerId, <<timers[i].flow>>, <<>>)
    /\ timers' = Without(timers, i)
    /\ UNCHANGED <<nextFlow, scalls, sclock>>
    /\ UNCHANGED <<miftahVars, barqVars, headerVars, nabdVars, rotationVars, zbatVars, munVars>>

ThroughputAssumesFlow(flow) ==
  IF flow = NoFlow
    THEN Quotient(Product(FracOf(INITIAL_CWND), FracOf(1200)),
                  Quotient(FracOf(INITIAL_RTT), FracOf(1000)))
    ELSE IF flow.rttSmoothed = FracOf(0)
      THEN FracOf(0)
      ELSE Quotient(Product(flow.congestionWindow, FracOf(1200)),
                    Quotient(flow.rttSmoothed, FracOf(1000)))

\* What getThroughput returns.
Throughput(flow) ==
  IF flow = NoFlow
    THEN FracOf(0)
    ELSE IF flow.rttSmoothed = FracOf(0)
      THEN FracOf(0)
      ELSE Quotient(Product(flow.congestionWindow, FracOf(1200)),
                    Quotient(flow.rttSmoothed, FracOf(1000)))

getThroughput(peerId) ==
  /\ scalls < MaxSaylCalls
  /\ scalls' = scalls + 1
  /\ sret' = SaylReturned("getThroughput", peerId, <<>>, Throughput(flows[peerId]))
  /\ UNCHANGED <<flows, timers, nextFlow, sclock>>
  /\ UNCHANGED <<miftahVars, barqVars, headerVars, nabdVars, rotationVars, zbatVars, munVars>>

getPacingDelay(peerId) ==
  /\ scalls < MaxSaylCalls
  /\ scalls' = scalls + 1
  /\ sret' = SaylReturned("getPacingDelay", peerId, <<>>,
               IF flows[peerId] = NoFlow \/ flows[peerId].bandwidth = FracOf(0)
                 THEN FracOf(0)
                 ELSE Quotient(FracOf(1200 * 1000), flows[peerId].bandwidth))
  /\ UNCHANGED <<flows, timers, nextFlow, sclock>>
  /\ UNCHANGED <<miftahVars, barqVars, headerVars, nabdVars, rotationVars, zbatVars, munVars>>

SaylGetStats(peerId) ==
  /\ scalls < MaxSaylCalls
  /\ scalls' = scalls + 1
  /\ sret' = SaylReturned("getStats", peerId, <<>>, flows[peerId])
  /\ UNCHANGED <<flows, timers, nextFlow, sclock>>
  /\ UNCHANGED <<miftahVars, barqVars, headerVars, nabdVars, rotationVars, zbatVars, munVars>>

\* A cleanup that clears the whole Map.
SaylCleanupAll(peerId) ==
  /\ scalls < MaxSaylCalls
  /\ scalls' = scalls + 1
  /\ flows' = [p \in Peers |-> NoFlow]
  /\ sret' = SaylReturned("cleanup", peerId, <<>>, <<>>)
  /\ UNCHANGED <<timers, nextFlow, sclock>>
  /\ UNCHANGED <<miftahVars, barqVars, headerVars, nabdVars, rotationVars, zbatVars, munVars>>

SaylCleanup(peerId) ==
  /\ scalls < MaxSaylCalls
  /\ scalls' = scalls + 1
  /\ flows' = [flows EXCEPT ![peerId] = NoFlow]
  /\ sret' = SaylReturned("cleanup", peerId, <<>>, <<>>)
  /\ UNCHANGED <<timers, nextFlow, sclock>>
  /\ UNCHANGED <<miftahVars, barqVars, headerVars, nabdVars, rotationVars, zbatVars, munVars>>

\* Time passes; a timer that is due fires before the clock moves on.
SaylTick ==
  /\ sclock + SaylClockStep <= MaxSaylClock
  /\ \A i \in DOMAIN timers : ~Due(timers[i])
  /\ sclock' = sclock + SaylClockStep
  /\ UNCHANGED <<flows, timers, nextFlow, scalls, sret>>
  /\ UNCHANGED <<miftahVars, barqVars, headerVars, nabdVars, rotationVars, zbatVars, munVars>>

SaylInit ==
  /\ flows = [p \in Peers |-> NoFlow]
  /\ timers = <<>>
  /\ nextFlow = 0
  /\ scalls = 0
  /\ sclock = 0
  /\ sret = [op |-> "none", peerId |-> "none", args |-> <<>>,
             before |-> NoFlow, value |-> <<>>]

SaylNext ==
  \/ \E p \in Peers : initFlow(p)
  \/ \E p \in Peers : canSend(p)
  \/ \E p \in Peers, b \in SendBytes : onSend(p, b)
  \/ \E p \in Peers, b \in AckBytes, r \in Rtts : onAck(p, b, r)
  \/ \E p \in Peers : onAckRepeated(p)
  \/ \E p \in Peers : onLoss(p)
  \/ RecoveryTimerFires
  \/ \E p \in Peers : getThroughput(p)
  \/ \E p \in Peers : getPacingDelay(p)
  \/ \E p \in Peers : SaylGetStats(p)
  \/ \E p \in Peers : SaylCleanup(p)
  \/ SaylTick

\* ------------------------------------------------------------------------
\* JSON text.  A text is the sequence of its UTF-16 code units.  A value is
\* a number <<"num", n>>, a string <<"str", units>> or an object
\* <<"obj", members>> with members a sequence of <<key, value>>; a property
\* that is absent reads as <<"undefined">>.
\* ------------------------------------------------------------------------

JsonNumber(n) == <<"num", n>>

JsonString(s) == <<"str", s>>

JsonObject(members) == <<"obj", members>>

Undefined == <<"undefined">>

IsUndefined(v) == v[1] = "undefined"

\* What JSON.parse raising a SyntaxError is recorded as.
SyntaxError == <<"SyntaxError">>

IsSyntaxError(v) == v[1] = "SyntaxError"

\* value[key]: the last member of that name, undefined when there is none
\* or the value is not an object.
Get(v, key) ==
  IF v[1] = "obj" /\ \E i \in DOMAIN v[2] : v[2][i][1] = key
    THEN LET at == {i \in DOMAIN v[2] : v[2][i][1] = key} IN
         v[2][CHOOSE i \in at : \A j \in at : j <= i][2]
    ELSE Undefined

\* The decimal digits of n >= 0.
RECURSIVE Digits(_)
Digits(n) ==
  IF n < 10 THEN <<48 + n>> ELSE Digits(n \div 10) \o <<48 + (n % 10)>>

\* A quotation mark or a backslash is written behind a backslash.  (The
\* strings of the model hold no control characters and no lone surrogates,
\* which JSON.stringify writes as \u escapes.)
EscapeAt(c) == IF c = 34 \/ c = 92 THEN <<92, c>> ELSE <<c>>

RECURSIVE EscapeRange(_, _, _)
EscapeRange(s, lo, hi) ==
  IF lo > hi THEN <<>>
  ELSE IF lo = hi THEN EscapeAt(s[lo])
  ELSE LET mid == (lo + hi) \div 2 IN
       EscapeRange(s, lo, mid) \o EscapeRange(s, mid + 1, hi)

JsonQuote(s) == <<34>> \o EscapeRange(s, 1, Len(s)) \o <<34>>

\* JSON.stringify(value): members in insertion order, no white space, a
\* member whose value is undefined left out.
RECURSIVE JsonStringify(_)
RECURSIVE StringifyMembers(_, _, _)
JsonStringify(v) ==
  IF v[1] = "num" THEN Digits(v[2])
  ELSE IF v[1] = "str" THEN JsonQuote(v[2])
  ELSE <<123>> \o StringifyMembers(v[2], 1, TRUE) \o <<125>>

StringifyMembers(ms, i, first) ==
  IF i > Len(ms) THEN <<>>
  ELSE IF IsUndefined(ms[i][2]) THEN StringifyMembers(ms, i + 1, first)
  ELSE (IF first THEN <<>> ELSE <<44>>)
       \o JsonQuote(ms[i][1]) \o <<58>> \o JsonStringify(ms[i][2])
       \o StringifyMembers(ms, i + 1, FALSE)

\* The number of backslashes that end right before index k of t, none of
\* them before index from.
BackslashRun(t, from, k) ==
  LET stops == {j \in (from - 1) .. (k - 1) : j = from - 1 \/ t[j] # 92} IN
  (k - 1) - (CHOOSE j \in stops : \A l \in stops : l <= j)

\* The character at index k stands behind a backslash that escapes it.
IsEscaped(t, from, k) ==
  k > from /\ t[k - 1] = 92 /\ BackslashRun(t, from, k) % 2 = 1

\* The index of the quotation mark that closes the string opened at index
\* i, 0 when there is none.
StringEnd(t, i) ==
  LET ends == {k \in (i + 1) .. Len(t) : t[k] = 34 /\ ~IsEscaped(t, i + 1, k)} IN
  IF ends = {} THEN 0 ELSE CHOOSE k \in ends : \A l \in ends : k <= l

\* Parsers return <<value, index after it>>, or <<>> for a syntax error.
\* The grammar read is that of the texts that occur: objects, strings with
\* the escapes \" \\ \/ and non-negative integers of at most 9 digits,
\* without white space; any other text is a syntax error.

\* The characters between the quotation marks, unescaped.
StringBody(raw, e) ==
  IF \E p \in 1 .. Len(raw) :
       \/ raw[p] < 32
       \/ raw[p] \notin {34, 92, 47} /\ IsEscaped(raw, 1, p)
    THEN <<>>
  ELSE <<JsonString(SelectSeq(
           [p \in 1 .. Len(raw) |->
              IF raw[p] = 92 /\ ~IsEscaped(raw, 1, p) THEN -1 ELSE raw[p]],
           LAMBDA c : c # -1)), e + 1>>

StringTo(t, i, e) == IF e = 0 THEN <<>> ELSE StringBody(SubSeq(t, i + 1, e - 1), e)

ParseString(t, i) == StringTo(t, i, StringEnd(t, i))

IsDigit(c) == c >= 48 /\ c <= 57

RECURSIVE DigitsValue(_, _, _)
DigitsValue(t, lo, hi) ==
  IF lo > hi THEN 0 ELSE DigitsValue(t, lo, hi - 1) * 10 + (t[hi] - 48)

NumberTo(t, i, e) ==
  IF e - i > 9 \/ (t[i] = 48 /\ e - i > 1) THEN <<>>
  ELSE IF e <= Len(t) /\ t[e] \in {46, 69, 101} THEN <<>>
  ELSE <<JsonNumber(DigitsValue(t, i, e - 1)), e>>

\* The index after the digits that start at index i.
DigitsEnd(t, i) ==
  CHOOSE k \in i .. (Len(t) + 1) :
    /\ k = Len(t) + 1 \/ ~IsDigit(t[k])
    /\ \A l \in i .. (k - 1) : IsDigit(t[l])

ParseNumber(t, i) == NumberTo(t, i, DigitsEnd(t, i))

RECURSIVE ParseValue(_, _)
RECURSIVE ParseMembers(_, _, _)
RECURSIVE MemberValue(_, _, _)
RECURSIVE MemberEnd(_, _, _, _)
ParseValue(t, i) ==
  IF i > Len(t) THEN <<>>
  ELSE IF t[i] = 123
    THEN IF i + 1 <= Len(t) /\ t[i + 1] = 125
           THEN <<JsonObject(<<>>), i + 2>>
           ELSE ParseMembers(t, i + 1, <<>>)
  ELSE IF t[i] = 34 THEN ParseString(t, i)
  ELSE IF IsDigit(t[i]) THEN ParseNumber(t, i)
  ELSE <<>>

\* The members of an object from index i on, acc those read so far.
ParseMembers(t, i, acc) ==
  IF i > Len(t) \/ t[i] # 34 THEN <<>> ELSE MemberValue(t, ParseString(t, i), acc)

\* A member after its key k was read.
MemberValue(t, k, acc) ==
  IF Len(k) = 0 THEN <<>>
  ELSE IF k[2] > Len(t) \/ t[k[2]] # 58 THEN <<>>
  ELSE MemberEnd(t, k[1][2], ParseValue(t, k[2] + 1), acc)

\* A member after its value v was read.
MemberEnd(t, key, v, acc) ==
  IF Len(v) = 0 THEN <<>>
  ELSE IF v[2] > Len(t) THEN <<>>
  ELSE IF t[v[2]] = 44 THEN ParseMembers(t, v[2] + 1, Append(acc, <<key, v[1]>>))
  ELSE IF t[v[2]] = 125 THEN <<JsonObject(Append(acc, <<key, v[1]>>)), v[2] + 1>>
  ELSE <<>>

\* The value read when it ends where the text ends.
WholeText(t, r) ==
  IF Len(r) = 0 THEN SyntaxError
  ELSE IF r[2] # Len(t) + 1 THEN SyntaxError
  ELSE r[1]

\* JSON.parse(text): the value, or the SyntaxError it raises.
JsonParse(t) == WholeText(t, ParseValue(t, 1))

\* The characters of base64 text: A-Z a-z 0-9 + / and = for padding.
Base64Char(v) ==
  IF v < 26 THEN 65 + v
  ELSE IF v < 52 THEN 71 + v
  ELSE IF v < 62 THEN v - 4
  ELSE IF v = 62 THEN 43
  ELSE IF v = 63 THEN 47
  ELSE 61

IsBase64Char(c) ==
  \/ c >= 65 /\ c <= 90
  \/ c >= 97 /\ c <= 122
  \/ c >= 48 /\ c <= 57
  \/ c \in {43, 47, 61, 45, 95}

\* The sextet a character of base64 text stands for; - and _ are read as
\* + and /.
Base64Sextet(c) ==
  IF c >= 65 /\ c <= 90 THEN c - 65
  ELSE IF c >= 97 /\ c <= 122 THEN c - 71
  ELSE IF c >= 48 /\ c <= 57 THEN c + 4
  ELSE IF c = 43 \/ c = 45 THEN 62
  ELSE IF c = 47 \/ c = 95 THEN 63
  ELSE 64

\* The text of a base64 string given by its sextets.
Base64Chars(sextets) == [i \in 1 .. Len(sextets) |-> Base64Char(sextets[i])]

\* The sextets of a string read as base64: characters outside the
\* alphabet are passed over.
Base64Sextets(text) ==
  LET kept == SelectSeq(text, IsBase64Char) IN
  [i \in 1 .. Len(kept) |-> Base64Sextet(kept[i])]

\* Buffer.from(bytes).toString('base64') as text.
Base64Text(bytes) == Base64Chars(ToBase64(bytes))

\* Buffer.from(text, 'base64').
Base64Bytes(text) == FromBase64(Base64Sextets(text))

\* "type"
KeyType == <<116, 121, 112, 101>>

\* "content"
KeyContent == <<99, 111, 110, 116, 101, 110, 116>>

\* "metadata"
KeyMetadata == <<109, 101, 116, 97, 100, 97, 116, 97>>

\* "version"
KeyVersion == <<118, 101, 114, 115, 105, 111, 110>>

\* "senderId"
KeySenderId == <<115, 101, 110, 100, 101, 114, 73, 100>>

\* "recipientId"
KeyRecipientId == <<114, 101, 99, 105, 112, 105, 101, 110, 116, 73, 100>>

\* "daraja"
KeyDaraja == <<100, 97, 114, 97, 106, 97>>

\* "timestamp"
KeyTimestamp == <<116, 105, 109, 101, 115, 116, 97, 109, 112>>

\* "ghilafSize"
KeyGhilafSize == <<103, 104, 105, 108, 97, 102, 83, 105, 122, 101>>

\* "miftahSequence"
KeyMiftahSequence == <<109, 105, 102, 116, 97, 104, 83, 101, 113, 117, 101, 110, 99, 101>>

\* "nonce"
KeyNonce == <<110, 111, 110, 99, 101>>

\* "batin"
KeyBatin == <<98, 97, 116, 105, 110>>

\* "mac"
KeyMac == <<109, 97, 99>>

\* ------------------------------------------------------------------------
\* Miftah: key rotation
\* ------------------------------------------------------------------------

MAX_PUNCTURES == 1000

\* At most MaxRuns runs of round trips are made.
MaxRuns == 3

\* At most MaxRotationChecks calls of needsRotation are made.
MaxRotationChecks == 3

\* Numbers of round trips in a run.
RunLengths == {1, 499, 500}

\* The peers whose keys are rotated.
RotationPeers == {CHOOSE p \in Peers : TRUE}

NeedsRotationAbove(miftah) ==
  Cardinality(miftah.puncturedSequences) > MAX_PUNCTURES

\* miftah.puncturedSequences.size >= MAX_PUNCTURES
NeedsRotation(miftah) ==
  Cardinality(miftah.puncturedSequences) >= MAX_PUNCTURES

needsRotation(peerId) ==
  /\ rret.calls < MaxRotationChecks
  /\ rret' = [op |-> "needsRotation", peerId |-> peerId, miftah |-> keys[peerId],
              calls |-> rret.calls + 1,
              value |-> IF keys[peerId] = NoMiftah
                          THEN TRUE
                          ELSE NeedsRotation(miftahs[keys[peerId]])]
  /\ UNCHANGED <<miftahVars, rruns>>
  /\ UNCHANGED <<barqVars, headerVars, nabdVars, saylVars, zbatVars, munVars>>

\* A run of n round trips with nothing else in flight: n times, one after
\* the other, fakk(peerId, (await tashfir(peerId, text)).encrypted). Each
\* tashfir takes the next sequence and each fakk punctures it.
RoundTrips(peerId, n) ==
  /\ rruns < MaxRuns
  /\ rruns' = rruns + 1
  /\ keys[peerId] # NoMiftah
  /\ calls = <<>>
  /\ LET m == keys[peerId]
         first == miftahs[m].currentSequence[2]
     IN  /\ miftahs[m].currentSequence[1] = 0
         /\ first + n < W16
         /\ miftahs' = [miftahs EXCEPT
               ![m].currentSequence = NumAdd(@, NumOf(n)),
               ![m].puncturedSequences =
                  @ \cup {NumOf(i) : i \in first .. (first + n - 1)}]
  /\ UNCHANGED <<keys, calls, log, nextCall, rret>>
  /\ UNCHANGED <<barqVars, headerVars, nabdVars, saylVars, zbatVars, munVars>>

RotationInit ==
  /\ rret = [op |-> "none", peerId |-> "none", miftah |-> NoMiftah,
             calls |-> 0, value |-> FALSE]
  /\ rruns = 0

RotationNext ==
  \/ \E p \in RotationPeers : fataha(p, MyPrivateKey, PeerPublicKey(p))
  \/ \E p \in RotationPeers, n \in RunLengths : RoundTrips(p, n)
  \/ \E p \in RotationPeers : needsRotation(p)
  \/ \E p \in RotationPeers : aghlaqa(p)

\* ------------------------------------------------------------------------
\* ZBAT: the manifest (zahir) and hidden (batin) layers of a packet (tabaq)
\*
\* Two parties, each with a key store of its own that holds a record for
\* the other party only: keys[p] is the record that the party other than p
\* holds for p.  satr runs at the sender on its record for the recipient,
\* kashf runs at the receiver on its record for the sender.
\* ------------------------------------------------------------------------

ZBAT_VERSION == 1

\* DarajaPriority
ISTI_JAL == 1

ADIY == 2

\* Date.now() starts at ZbatClockStart and advances by ZbatClockStep up to
\* MaxZbatClock between two calls of it.
ZbatClockStart == 1000

ZbatClockStep == 1000

MaxZbatClock == 2000

\* At most MaxSeals calls of satr are made.
MaxSeals == 2

Darajas == {ISTI_JAL, ADIY}

\* What a function returning a Tabaq or a Batin returns instead of one.
Null == [null |-> TRUE]

\* null where a parsed JSON value is expected.
JsonNull == <<"null">>

\* identity.fullId of a party.
IdText(p) == IF p = "alice" THEN <<97, 108, 105, 99, 101>> ELSE <<98, 111, 98>>

Other(p) == CHOOSE q \in Peers : q # p

\* identity.privateKey of a party.
PrivateKeyOf(p) == IF p = "alice" THEN KeyMaterial(4) ELSE KeyMaterial(5)

\* The hidden values sealed: they seal to the same number of encrypted
\* bytes.
Batins ==
  {[type |-> JsonNumber(1), content |-> <<104, 105>>, metadata |-> JsonObject(<<>>)],
   [type |-> JsonNumber(2), content |-> <<104>>, metadata |-> JsonObject(<<>>)]}

\* JSON.stringify({type, content: base64, metadata})
BatinJson(batin) ==
  JsonStringify(JsonObject(<<
    <<KeyType, batin.type>>,
    <<KeyContent, JsonString(Base64Text(batin.content))>>,
    <<KeyMetadata, batin.metadata>> >>))

\* A sequence number of the key store as a JSON number.
SequenceNumber(sequence) == JsonNumber(sequence[1] * W16 + sequence[2])

Zeros(n) == [i \in 1 .. n |-> 0]

NewGhilaf(sequence, encryptedBytes) ==
  [miftahSequence |-> SequenceNumber(sequence),
   nonce |-> Zeros(12),
   batin |-> encryptedBytes,
   mac |-> Zeros(16)]

NewZahirFromBytes(identity, recipientId, daraja, timestamp, encryptedBytes) ==
  JsonObject(<<
    <<KeyVersion, JsonNumber(ZBAT_VERSION)>>,
    <<KeySenderId, JsonString(IdText(identity))>>,
    <<KeyRecipientId, JsonString(IdText(recipientId))>>,
    <<KeyDaraja, JsonNumber(daraja)>>,
    <<KeyTimestamp, JsonNumber(timestamp)>>,
    <<KeyGhilafSize, JsonNumber(encryptedBytes[Len(encryptedBytes)])>> >>)

NewZahir(identity, recipientId, daraja, timestamp, encryptedBytes) ==
  JsonObject(<<
    <<KeyVersion, JsonNumber(ZBAT_VERSION)>>,
    <<KeySenderId, JsonString(IdText(identity))>>,
    <<KeyRecipientId, JsonString(IdText(recipientId))>>,
    <<KeyDaraja, JsonNumber(daraja)>>,
    <<KeyTimestamp, JsonNumber(timestamp)>>,
    <<KeyGhilafSize, JsonNumber(Len(encryptedBytes))>> >>)

\* satr after its await, given what tashfir returned.
NewTabaq(identity, recipientId, daraja, timestamp, sequence, encrypted) ==
  LET encryptedBytes == TextEncode(encrypted) IN
  [zahir |-> NewZahir(identity, recipientId, daraja, timestamp, encryptedBytes),
   ghilaf |-> NewGhilaf(sequence, encryptedBytes)]

ConcealedAnyway(inner, tabaq) == tabaq

\* if (!encrypted) return null; ... return { zahir, ghilaf }
Concealed(inner, tabaq) == IF inner = "NoKey" THEN Null ELSE tabaq

ZReturned(call, inner, raised, value) ==
  [id |-> call.id, op |-> call.op, identity |-> call.identity,
   recipientId |-> call.recipientId, batin |-> call.batin, daraja |-> call.daraja,
   tabaq |-> call.tabaq, inner |-> inner, raised |-> raised, value |-> value,
   clock |-> zclock]

\* satr up to its await: the batin is serialized and tashfir is called,
\* which returns null at once when there is no record for the recipient.
SatrCall(identity, recipientId, batin, daraja) ==
  /\ Cardinality({i \in DOMAIN zlog : zlog[i].op = "satr"})
       + Cardinality({i \in DOMAIN zcalls : zcalls[i].op = "satr"}) < MaxSeals
  /\ TashfirStart(recipientId, BatinJson(batin))
  /\ LET call == [id |-> nextCall, op |-> "satr", identity |-> identity,
                  recipientId |-> recipientId, batin |-> batin, daraja |-> daraja,
                  tabaq |-> Null]
     IN IF keys[recipientId] = NoMiftah
          THEN /\ zlog' = Append(zlog, ZReturned(call, "NoKey", FALSE,
                              Concealed("NoKey",
                                NewTabaq(identity, recipientId, daraja, zclock,
                                         NumOf(0), <<>>))))
               /\ UNCHANGED zcalls
          ELSE /\ zcalls' = Append(zcalls, call)
               /\ UNCHANGED zlog
  /\ UNCHANGED <<wire, zret, zclock>>
  /\ UNCHANGED <<barqVars, headerVars, nabdVars, saylVars, rotationVars, munVars>>

\* The entry of the key store's log for call id.
Inner(id) == log[CHOOSE j \in DOMAIN log : log[j].id = id]

HasReturned(id) == \E j \in DOMAIN log : log[j].id = id

\* What Date.now() may return next: time stands still or moves on.
Nows == {zclock} \cup {t \in {zclock + ZbatClockStep} : t <= MaxZbatClock}

\* satr after its await, Date.now() returning `timestamp`.
SatrResume(i, timestamp) ==
  /\ zcalls[i].op = "satr"
  /\ HasReturned(zcalls[i].id)
  /\ zclock' = timestamp
  /\ LET c == zcalls[i]
         r == Inner(c.id)
     IN zlog' = Append(zlog, [ZReturned(c, r.outcome, FALSE,
                  Concealed(r.outcome,
                    NewTabaq(c.identity, c.recipientId, c.daraja, timestamp,
                             r.sequence, Base64Chars(r.value))))
                  EXCEPT !.clock = timestamp])
  /\ zcalls' = Without(zcalls, i)
  /\ UNCHANGED <<wire, zret>>
  /\ UNCHANGED <<miftahVars, barqVars, headerVars, nabdVars, saylVars, rotationVars, munVars>>

GhilafJson(ghilaf) ==
  JsonStringify(JsonObject(<<
    <<KeyMiftahSequence, ghilaf.miftahSequence>>,
    <<KeyNonce, JsonString(Base64Text(ghilaf.nonce))>>,
    <<KeyBatin, JsonString(Base64Text(ghilaf.batin))>>,
    <<KeyMac, JsonString(Base64Text(ghilaf.mac))>> >>))

\* [zahirLen:4][zahir:n][ghilaf:m]
serializeTabaq(tabaq) ==
  LET zahirBytes == TextEncode(JsonStringify(tabaq.zahir))
      ghilafBytes == TextEncode(GhilafJson(tabaq.ghilaf))
  IN  SetUint32(NumOf(Len(zahirBytes))) \o zahirBytes \o ghilafBytes

\* Uint8Array.slice(from, to)
SliceTo(b, from, to) == Take(Slice(b, from), IF to > from THEN to - from ELSE 0)

\* The length prefix as an index into the data; a prefix beyond the data
\* reads to its end.
ZahirLen(data) ==
  LET n == GetUint32(data, 0) IN
  IF n[1] > 0 \/ n[2] > Len(data) THEN Len(data) ELSE n[2]

ZahirJsonToEnd(data) == TextDecode(Slice(data, 4))

\* new TextDecoder().decode(data.slice(4, 4 + zahirLen))
ZahirJson(data) == TextDecode(SliceTo(data, 4, 4 + ZahirLen(data)))

\* Buffer.from(value, 'base64') raises a TypeError unless value is a
\* string.
IsString(v) == v[1] = "str"

\* The ghilaf rebuilt from the parsed text; Buffer.from raising gives null.
TabaqOf(zahir, ghilafParsed) ==
  IF IsSyntaxError(zahir) \/ IsSyntaxError(ghilafParsed) THEN Null
  ELSE IF \E k \in {KeyNonce, KeyBatin, KeyMac} : ~IsString(Get(ghilafParsed, k))
    THEN Null
  ELSE [zahir |-> zahir,
        ghilaf |-> [miftahSequence |-> Get(ghilafParsed, KeyMiftahSequence),
                    nonce |-> Base64Bytes(Get(ghilafParsed, KeyNonce)[2]),
                    batin |-> Base64Bytes(Get(ghilafParsed, KeyBatin)[2]),
                    mac |-> Base64Bytes(Get(ghilafParsed, KeyMac)[2])]]

\* new TextDecoder().decode(data.slice(4 + zahirLen))
GhilafJsonOf(data) == TextDecode(Slice(data, 4 + ZahirLen(data)))

\* With fewer than 4 bytes getUint32 raises a RangeError or reads on into
\* the buffer behind the data; either way nothing is left to slice, the
\* empty text does not parse, and the catch returns null.
deserializeTabaq(data) ==
  IF Len(data) < 4 THEN Null
  ELSE TabaqOf(JsonParse(ZahirJson(data)), JsonParse(GhilafJsonOf(data)))

\* return JSON.parse(zahirJson), null from the catch.
ZahirOf(zahir) == IF IsSyntaxError(zahir) THEN JsonNull ELSE zahir

extractZahir(data) ==
  IF Len(data) < 4 THEN JsonNull ELSE ZahirOf(JsonParse(ZahirJson(data)))

\* The packets of the satr calls that returned one.
Sealed == {zlog[i].value : i \in {j \in DOMAIN zlog : zlog[j].op = "satr" /\ zlog[j].inner = "Ok"}}

EncryptedOf(tabaq) == Base64Sextets(TextDecode(tabaq.ghilaf.batin))

\* A packet whose encrypted bytes were replaced in transit.
WithEncrypted(tabaq, encrypted) ==
  [tabaq EXCEPT !.ghilaf.batin = TextEncode(Base64Chars(encrypted))]

\* What the receiver may get for a packet sent: the packet, and copies
\* with the ciphertext changed or cut short.
Forgeries(tabaq, encrypted) ==
  {tabaq, WithEncrypted(tabaq, Corrupt(encrypted)),
   WithEncrypted(tabaq, Truncated(encrypted))}

Arrivals(tabaq) == IF tabaq = Null THEN {} ELSE Forgeries(tabaq, EncryptedOf(tabaq))

\* The packets the receiver hands to kashf.
Tabaqs == UNION {Arrivals(w.tabaq) : w \in wire}

\* The bytes a router may get: the packets sent, and copies cut short in
\* the length prefix and in the manifest.
RouterInputs ==
  UNION {{w.data, Take(w.data, 3), Take(w.data, 20)} : w \in wire}

\* A packet on its way: serialized by the sender, deserialized by the
\* receiver.
Sent(tabaq, data) == [sent |-> tabaq, data |-> data, tabaq |-> deserializeTabaq(data)]

\* The caller of satr hands the packet to serializeTabaq and sends the
\* bytes; the receiver hands them to deserializeTabaq.
SerializeTabaq(tabaq) ==
  /\ \A w \in wire : w.sent # tabaq
  /\ wire' = wire \cup {Sent(tabaq, serializeTabaq(tabaq))}
  /\ UNCHANGED <<zcalls, zlog, zret, zclock>>
  /\ UNCHANGED <<miftahVars, barqVars, headerVars, nabdVars, saylVars, rotationVars, munVars>>

ExtractZahir(data) ==
  /\ zret' = [op |-> "extractZahir", input |-> data, zahir |-> extractZahir(data)]
  /\ zret' # zret
  /\ UNCHANGED <<zcalls, zlog, wire, zclock>>
  /\ UNCHANGED <<miftahVars, barqVars, headerVars, nabdVars, saylVars, rotationVars, munVars>>

\* The party a sender id names, "nobody" when it names none.
PeerOf(v) ==
  IF IsString(v) /\ \E p \in Peers : IdText(p) = v[2]
    THEN CHOOSE p \in Peers : IdText(p) = v[2]
    ELSE "nobody"

\* kashf up to its await: fakk is called for the sender the manifest names
\* with the encrypted bytes decoded as text.
KashfCall(tabaq) ==
  /\ LET sender == PeerOf(Get(tabaq.zahir, KeySenderId))
         call == [id |-> nextCall, op |-> "kashf", identity |-> sender,
                  recipientId |-> "nobody", batin |-> Null, daraja |-> 0,
                  tabaq |-> tabaq]
     IN IF sender \in Peers
          THEN /\ FakkStart(sender, Base64Sextets(TextDecode(tabaq.ghilaf.batin)))
               /\ zcalls' = Append(zcalls, call)
               /\ UNCHANGED zlog
          ELSE /\ nextCall < MaxCalls
               /\ nextCall' = nextCall + 1
               /\ zlog' = Append(zlog, ZReturned(call, "NoKey", FALSE, Null))
               /\ UNCHANGED <<keys, miftahs, calls, log, zcalls>>
  /\ UNCHANGED <<wire, zret, zclock>>
  /\ UNCHANGED <<barqVars, headerVars, nabdVars, saylVars, rotationVars, munVars>>

\* value || {}
Falsy(v) ==
  \/ IsUndefined(v)
  \/ v[1] = "num" /\ v[2] = 0
  \/ v[1] = "str" /\ v[2] = <<>>

\* The batin rebuilt from the parsed text; whatever is raised in the try
\* block gives null.
BatinOf(parsed, content, metadata) ==
  IF IsSyntaxError(parsed) THEN Null
  ELSE IF ~IsString(content) THEN Null
  ELSE [type |-> Get(parsed, KeyType),
        content |-> Base64Bytes(content[2]),
        metadata |-> IF Falsy(metadata) THEN JsonObject(<<>>) ELSE metadata]

BatinFrom(parsed) == BatinOf(parsed, Get(parsed, KeyContent), Get(parsed, KeyMetadata))

\* kashf from `if (!decrypted)` on.
Uncovered(decrypted) ==
  IF decrypted = <<>> THEN Null ELSE BatinFrom(JsonParse(decrypted))

\* kashf after its await.  fakk returned null (no record, or a punctured
\* sequence), raised (the await raises in turn), or returned a text.
KashfResume(i) ==
  /\ zcalls[i].op = "kashf"
  /\ HasReturned(zcalls[i].id)
  /\ LET c == zcalls[i]
         r == Inner(c.id)
     IN zlog' = Append(zlog, ZReturned(c, r.outcome, r.outcome = "Raised",
                  IF r.outcome = "Plain" THEN Uncovered(r.value) ELSE Null))
  /\ zcalls' = Without(zcalls, i)
  /\ UNCHANGED <<wire, zret, zclock>>
  /\ UNCHANGED <<miftahVars, barqVars, headerVars, nabdVars, saylVars, rotationVars, munVars>>

ZbatInit ==
  /\ zcalls = <<>>
  /\ zlog = <<>>
  /\ wire = {}
  /\ zret = [op |-> "none", input |-> <<>>, zahir |-> JsonNull]
  /\ zclock = ZbatClockStart

ZbatNext ==
  \/ \E p \in Peers : fataha(p, PrivateKeyOf(Other(p)), PeerPublicKey(p))
  \/ \E b \in Batins : SatrCall("alice", "bob", b, ADIY)
  \/ TashfirResume
  \/ \E i \in DOMAIN zcalls : SatrResume(i, zclock)
  \/ \E t \in Sealed : SerializeTabaq(t)
  \/ \E t \in Tabaqs : KashfCall(t)
  \/ FakkResume
  \/ \E i \in DOMAIN zcalls : KashfResume(i)

\* A router: packets are sealed and sent, and their manifests read.
RouterNext ==
  \/ fataha("bob", PrivateKeyOf("alice"), PeerPublicKey("bob"))
  \/ \E b \in Batins, d \in Darajas : SatrCall("alice", "bob", b, d)
  \/ TashfirResume
  \/ \E i \in DOMAIN zcalls, t \in Nows : SatrResume(i, t)
  \/ \E t \in Sealed : SerializeTabaq(t)
  \/ \E d \in RouterInputs : ExtractZahir(d)

\* ------------------------------------------------------------------------
\* Specifications
\* ------------------------------------------------------------------------

HeaderIdle ==
  /\ header = [version |-> BARQ_VERSION, type |-> DATA, sequence |-> NumOf(0),
               timestamp |-> NumOf(0), length |-> 0, flags |-> 0]
  /\ encoded = <<>>
  /\ decoded = NoHeader
  /\ hpc = "idle"

\* ------------------------------------------------------------------------
\* Munassiq and FiveGLite: the coordinators above the key store, Barq, Nabd
\* and Sayl.  A call runs up to its next await in one step; the clocks
\* stand still.
\* ------------------------------------------------------------------------

\* Calls of tamhid, tawsil, qat, irsal and istiqbal made in one behaviour.
MaxMunCalls == 4

\* The peer the coordinators talk to.
MunPeers == {"bob"}

NoIdentity == "none"

\* this.peers.get(peerId) and cells.get(peerId) of a peer without entry.
NoPeer == [undefined |-> TRUE]

NoCell == [undefined |-> TRUE]

\* A peerPublicKey that is not iterable (undefined): the spread in fataha
\* raises a TypeError.
NotAKey == <<-1>>

PublicKeys(peerId) == {PeerPublicKey(peerId), NotAKey}

\* The header sequences of the packets the peer sends.
PeerSequences == {0, 2}

\* The peer's packets: built by the peer's createDataPacket on its own
\* connection.
PeerPackets ==
  {DataPacket(NumOf(n), now,
              encryptPayload(deriveSecret(PrivateKeyOf("bob"), PeerPublicKey("alice")),
                             NumOf(n), TextEncode(<<104, 105>>))) : n \in PeerSequences}

\* The PeerWasl object tawsil stores; id is the thisIdentity of the object.
NewPeer(peerId) ==
  [id |-> nextPeer + 1, peerId |-> peerId, state |-> "yattasil",
   miftahActive |-> FALSE, messagesExchanged |-> 0]

\* The Khaliyya object FiveGLite.tawsil stores.
NewCell(peerId) ==
  [peerId |-> peerId, established |-> now, lastSlot |-> 0, rtt |-> 0,
   throughput |-> FracOf(0), healthy |-> TRUE]

MFrame(op, peerId, pc, obj, conn, sequence, work, input) ==
  [op |-> op, peerId |-> peerId, pc |-> pc, obj |-> obj, conn |-> conn,
   sequence |-> sequence, work |-> work, input |-> input]

MReturned(op, peerId, sequence, value) ==
  [op |-> op, peerId |-> peerId, sequence |-> sequence, value |-> value]

\* A write to a field of the PeerWasl object a call holds: the object may
\* no longer be the one in the Map.
PeerWritten(obj, peerId, field, value) ==
  IF peers[peerId] # NoPeer /\ peers[peerId].id = obj
    THEN [peers EXCEPT ![peerId][field] = value]
    ELSE peers

\* tamhid: the identity is created and the protocol stack initialized.
tamhid ==
  /\ thisIdentity = NoIdentity
  /\ thisIdentity' = "alice"
  /\ UNCHANGED <<peers, nextPeer, cells, mcalls, mret, cut, mcount>>
  /\ UNCHANGED <<miftahVars, barqVars, headerVars, nabdVars, saylVars, rotationVars, zbatVars>>

\* Munassiq.tawsil up to its first await: the peer entry is stored and
\* fataha has run (it has no await of its own) or has raised.
tawsil(peerId, peerPublicKey) ==
  /\ mcount < MaxMunCalls
  /\ mcount' = mcount + 1
  /\ IF thisIdentity = NoIdentity
       THEN /\ mret' = MReturned("tawsil", peerId, NoSequence, FALSE)
            /\ UNCHANGED <<peers, nextPeer, mcalls, cut, keys, miftahs>>
       ELSE /\ Len(miftahs) < MaxMiftahs
            /\ peers' = [peers EXCEPT ![peerId] = NewPeer(peerId)]
            /\ nextPeer' = nextPeer + 1
            /\ cut' = [cut EXCEPT ![peerId] = FALSE]
            /\ IF peerPublicKey = NotAKey
                 THEN /\ mcalls' = Append(mcalls, MFrame("tawsil", peerId, "raised", nextPeer + 1,
                                                         NoConn, NoSequence, <<>>, peerPublicKey))
                      /\ UNCHANGED <<keys, miftahs>>
                 ELSE /\ miftahs' = Append(miftahs, NewMiftah(peerId, PrivateKeyOf("alice"),
                                                              peerPublicKey))
                      /\ keys' = [keys EXCEPT ![peerId] = Len(miftahs) + 1]
                      /\ mcalls' = Append(mcalls, MFrame("tawsil", peerId, "fataha", nextPeer + 1,
                                                         NoConn, NoSequence, <<>>, peerPublicKey))
            /\ UNCHANGED mret
  /\ UNCHANGED <<thisIdentity, cells, calls, log, nextCall>>
  /\ UNCHANGED <<barqVars, headerVars, nabdVars, saylVars, rotationVars, zbatVars>>

\* tawsil after an await.  "raised": the catch block.  "fataha":
\* miftahActive is set and FiveGLite.tawsil runs up to the await in
\* createConnection.  "derive": createConnection stores the connection.
\* "conn": FiveGLite.tawsil starts Nabd and Sayl and stores the cell.
\* "cell": the peer is marked connected and tawsil returns true.
TawsilResume(i) ==
  LET f == mcalls[i] IN
  /\ f.op = "tawsil"
  /\ CASE f.pc = "raised" ->
            /\ peers' = PeerWritten(f.obj, f.peerId, "state", "munfasil")
            /\ mret' = MReturned("tawsil", f.peerId, NoSequence, FALSE)
            /\ mcalls' = Without(mcalls, i)
            /\ UNCHANGED <<cells, connections, conns, states, received, flows, nextFlow>>
       [] f.pc = "fataha" ->
            /\ peers' = PeerWritten(f.obj, f.peerId, "miftahActive", TRUE)
            /\ mcalls' = [mcalls EXCEPT ![i].pc = "derive",
                                        ![i].work = deriveSecret(PrivateKeyOf("alice"), f.input)]
            /\ UNCHANGED <<mret, cells, connections, conns, states, received, flows, nextFlow>>
       [] f.pc = "derive" ->
            /\ conns' = Append(conns, NewConnection(f.peerId, f.work, now))
            /\ connections' = MapSet(connections, f.peerId, Len(conns) + 1)
            /\ mcalls' = [mcalls EXCEPT ![i].pc = "conn"]
            /\ UNCHANGED <<mret, peers, cells, states, received, flows, nextFlow>>
       [] f.pc = "conn" ->
            /\ states' = [states EXCEPT ![f.peerId] = NewNabdState(f.peerId)]
            /\ received' = [received EXCEPT ![f.peerId] = {}]
            /\ flows' = [flows EXCEPT ![f.peerId] = NewFlow(f.peerId)]
            /\ nextFlow' = nextFlow + 1
            /\ cells' = [cells EXCEPT ![f.peerId] = NewCell(f.peerId)]
            /\ mcalls' = [mcalls EXCEPT ![i].pc = "cell"]
            /\ UNCHANGED <<mret, peers, connections, conns>>
       [] f.pc = "cell" ->
            /\ peers' = PeerWritten(f.obj, f.peerId, "state", "muttasil")
            /\ mret' = MReturned("tawsil", f.peerId, NoSequence, TRUE)
            /\ mcalls' = Without(mcalls, i)
            /\ UNCHANGED <<cells, connections, conns, states, received, flows, nextFlow>>
  /\ UNCHANGED <<thisIdentity, nextPeer, cut, mcount>>
  /\ UNCHANGED <<miftahVars, bcalls, blog, bnextCall, now, ticks>>
  /\ UNCHANGED <<pulses, nclock, nret, ncalls, timers, scalls, sclock, sret>>
  /\ UNCHANGED <<headerVars, rotationVars, zbatVars>>

\* Munassiq.qat: aghlaqa, then FiveGLite.qat (closeConnection, Nabd.cleanup,
\* Sayl.cleanup, cells.delete), then peers.delete.
qat(peerId) ==
  /\ mcount < MaxMunCalls
  /\ mcount' = mcount + 1
  /\ IF keys[peerId] = NoMiftah
       THEN UNCHANGED <<keys, miftahs>>
       ELSE /\ miftahs' = [miftahs EXCEPT ![keys[peerId]] = Zeroized(@)]
            /\ keys' = [keys EXCEPT ![peerId] = NoMiftah]
  /\ connections' = MapDelete(connections, peerId)
  /\ states' = [states EXCEPT ![peerId] = NoState]
  /\ received' = [received EXCEPT ![peerId] = {}]
  /\ flows' = [flows EXCEPT ![peerId] = NoFlow]
  /\ cells' = [cells EXCEPT ![peerId] = NoCell]
  /\ peers' = [peers EXCEPT ![peerId] = NoPeer]
  /\ cut' = [cut EXCEPT ![peerId] = TRUE]
  /\ mret' = MReturned("qat", peerId, NoSequence, TRUE)
  /\ UNCHANGED <<thisIdentity, nextPeer, mcalls>>
  /\ UNCHANGED <<calls, log, nextCall, conns, bcalls, blog, bnextCall, now, ticks>>
  /\ UNCHANGED <<pulses, nclock, nret, ncalls, timers, nextFlow, scalls, sclock, sret>>
  /\ UNCHANGED <<headerVars, rotationVars, zbatVars>>

\* createDataPacket up to its await, called from irsal: without a
\* connection it returns null and irsal returns false.
PacketStarted(frames, i, f) ==
  LET c == ConnOf(connections, f.peerId) IN
  IF c = NoConn
    THEN /\ mret' = MReturned("irsal", f.peerId, NoSequence, FALSE)
         /\ mcalls' = IF i = 0 THEN frames ELSE Without(frames, i)
         /\ UNCHANGED conns
    ELSE LET sequence == conns[c].sendSequence
             g == [f EXCEPT !.pc = "encrypt", !.conn = c, !.sequence = sequence,
                            !.work = encryptPayload(conns[c].sharedSecret, sequence,
                                                    TextEncode(f.input))]
         IN /\ conns' = [conns EXCEPT ![c].sendSequence = NumInc(@)]
            /\ mcalls' = IF i = 0 THEN Append(frames, g) ELSE [frames EXCEPT ![i] = g]
            /\ UNCHANGED mret

\* FiveGLite.irsal up to its first await: waitForSlot when canSend is
\* false, the await in createDataPacket otherwise.
irsal(peerId, data) ==
  /\ mcount < MaxMunCalls
  /\ mcount' = mcount + 1
  /\ LET f == MFrame("irsal", peerId, "slot", 0, NoConn, NoSequence, <<>>, data) IN
     IF cells[peerId] = NoCell
       THEN /\ mret' = MReturned("irsal", peerId, NoSequence, FALSE)
            /\ UNCHANGED <<mcalls, conns>>
       ELSE IF ~Sendable(flows[peerId])
         THEN /\ mcalls' = Append(mcalls, f)
              /\ UNCHANGED <<mret, conns>>
         ELSE PacketStarted(mcalls, 0, f)
  /\ UNCHANGED <<thisIdentity, peers, nextPeer, cells, cut>>
  /\ UNCHANGED <<miftahVars, connections, bcalls, blog, bnextCall, now, ticks>>
  /\ UNCHANGED <<headerVars, nabdVars, saylVars, rotationVars, zbatVars>>

\* Sayl.onSend on the flows Map.
Registered(peerId, bytes) ==
  IF flows[peerId] = NoFlow
    THEN flows
    ELSE [flows EXCEPT ![peerId].bytesInFlight = @ + bytes,
                       ![peerId].packetsInFlight = @ + 1]

\* irsal after an await.  "slot": the slot has passed and createDataPacket
\* is called, whatever canSend says now.  "encrypt": createDataPacket
\* returns the packet and irsal registers it with Sayl.onSend.
IrsalResume(i) ==
  LET f == mcalls[i] IN
  /\ f.op = "irsal"
  /\ CASE f.pc = "slot" ->
            /\ PacketStarted(mcalls, i, f)
            /\ UNCHANGED flows
       [] f.pc = "encrypt" ->
            /\ conns' = [conns EXCEPT ![f.conn].pendingAcks = @ \cup {f.sequence}]
            /\ flows' = Registered(f.peerId, Len(DataPacket(f.sequence, now, f.work)))
            /\ mret' = MReturned("irsal", f.peerId, f.sequence, TRUE)
            /\ mcalls' = Without(mcalls, i)
  /\ UNCHANGED <<thisIdentity, peers, nextPeer, cells, cut, mcount>>
  /\ UNCHANGED <<miftahVars, connections, bcalls, blog, bnextCall, now, ticks>>
  /\ UNCHANGED <<timers, nextFlow, scalls, sclock, sret>>
  /\ UNCHANGED <<headerVars, nabdVars, rotationVars, zbatVars>>

\* A run of n irsal calls with nothing else in flight, one after the other,
\* each of which finds canSend true.
IrsalRun(peerId, data, n) ==
  /\ mcount < MaxMunCalls
  /\ mcount' = mcount + 1
  /\ mcalls = <<>>
  /\ cells[peerId] # NoCell
  /\ flows[peerId] # NoFlow
  /\ ConnOf(connections, peerId) # NoConn
  /\ Sendable([flows[peerId] EXCEPT !.packetsInFlight = @ + n - 1])
  /\ LET c == ConnOf(connections, peerId)
         first == conns[c].sendSequence
         bytes == BARQ_HEADER_SIZE + Len(TextEncode(data))
     IN /\ conns' = [conns EXCEPT
              ![c].sendSequence = NumAdd(@, NumOf(n)),
              ![c].pendingAcks = @ \cup {NumAdd(first, NumOf(k)) : k \in 0 .. (n - 1)}]
        /\ flows' = [flows EXCEPT ![peerId].bytesInFlight = @ + n * bytes,
                                  ![peerId].packetsInFlight = @ + n]
        /\ mret' = MReturned("irsal", peerId, NumAdd(first, NumOf(n - 1)), TRUE)
  /\ UNCHANGED <<thisIdentity, peers, nextPeer, cells, mcalls, cut>>
  /\ UNCHANGED <<miftahVars, connections, bcalls, blog, bnextCall, now, ticks>>
  /\ UNCHANGED <<timers, nextFlow, scalls, sclock, sret>>
  /\ UNCHANGED <<headerVars, nabdVars, rotationVars, zbatVars>>

\* FiveGLite.istiqbal up to the await in processPacket.
istiqbal(data) ==
  /\ mcount < MaxMunCalls
  /\ mcount' = mcount + 1
  /\ LET h == decodeHeader(data) IN
     IF h = NoHeader \/ connections = <<>>
       THEN /\ mret' = MReturned("istiqbal", "", NoSequence, FALSE)
            /\ UNCHANGED mcalls
       ELSE LET c == connections[1][2] IN
            /\ mcalls' = Append(mcalls,
                 MFrame("istiqbal", connections[1][1], "decrypt", 0, c, h.sequence,
                        decryptPayload(conns[c].sharedSecret, h.sequence,
                                       Slice(data, BARQ_HEADER_SIZE)),
                        data))
            /\ UNCHANGED mret
  /\ UNCHANGED <<thisIdentity, peers, nextPeer, cells, cut>>
  /\ UNCHANGED <<miftahVars, barqVars, headerVars, nabdVars, saylVars, rotationVars, zbatVars>>

\* Nabd.onReceive(result.peerId, 0): the sequence istiqbal hands over.
HandedOver(h) == 0

\* istiqbal after its await: processPacket returns the first connection's
\* peer, and for a peer with a cell Nabd and Sayl are updated.
IstiqbalResume(i) ==
  LET f == mcalls[i]
      h == decodeHeader(f.input)
      p == f.peerId
      acked == IF h.type = ACK THEN OnAck(conns[f.conn], h, now) ELSE conns[f.conn]
  IN
  /\ f.op = "istiqbal"
  /\ conns' = [conns EXCEPT ![f.conn] =
                 [acked EXCEPT !.lastSeen = now,
                               !.recvSequence = NumMax(@, NumInc(h.sequence))]]
  /\ IF cells[p] = NoCell
       THEN UNCHANGED <<states, received, flows, cells>>
       ELSE /\ IF states[p] = NoState
                 THEN UNCHANGED <<states, received>>
                 ELSE /\ states' = [states EXCEPT ![p] = Receive(@, HandedOver(h)).state]
                      /\ received' = [received EXCEPT ![p] = @ \cup {HandedOver(h)}]
            /\ flows' = IF flows[p] = NoFlow
                          THEN flows
                          ELSE [flows EXCEPT ![p] = Acked(@, Len(f.input), cells[p].rtt)]
            /\ cells' = [cells EXCEPT
                 ![p].healthy = IF states'[p] = NoState THEN FALSE ELSE Healthy(states'[p]),
                 ![p].throughput = Throughput(flows'[p])]
  /\ mret' = MReturned("istiqbal", p, h.sequence, cells[p] # NoCell)
  /\ mcalls' = Without(mcalls, i)
  /\ UNCHANGED <<thisIdentity, peers, nextPeer, cut, mcount>>
  /\ UNCHANGED <<miftahVars, connections, bcalls, blog, bnextCall, now, ticks>>
  /\ UNCHANGED <<pulses, nclock, nret, ncalls, timers, nextFlow, scalls, sclock, sret>>
  /\ UNCHANGED <<headerVars, rotationVars, zbatVars>>

MunassiqInit ==
  /\ thisIdentity = NoIdentity
  /\ peers = [p \in Peers |-> NoPeer]
  /\ nextPeer = 0
  /\ cells = [p \in Peers |-> NoCell]
  /\ mcalls = <<>>
  /\ mret = MReturned("none", "none", NoSequence, FALSE)
  /\ cut = [p \in Peers |-> FALSE]
  /\ mcount = 0

MunassiqNext ==
  \/ tamhid
  \/ \E p \in MunPeers : \E k \in PublicKeys(p) : tawsil(p, k)
  \/ \E i \in DOMAIN mcalls : TawsilResume(i)
  \/ \E p \in MunPeers : qat(p)
  \/ \E p \in MunPeers, d \in BarqData : irsal(p, d)
  \/ \E i \in DOMAIN mcalls : IrsalResume(i)
  \/ \E p \in MunPeers, d \in BarqData : IrsalRun(p, d, INITIAL_CWND)
  \/ \E d \in PeerPackets : istiqbal(d)
  \/ \E i \in DOMAIN mcalls : IstiqbalResume(i)

Init ==
  /\ MiftahInit /\ BarqInit /\ HeaderIdle /\ NabdInit /\ SaylInit /\ RotationInit /\ ZbatInit
  /\ MunassiqInit

Next == MiftahNext

\* The key store.
Spec == Init /\ [][Next]_vars

\* The datagram protocol.
BarqSpec == Init /\ [][BarqNext]_vars

HeaderSpecInit ==
  /\ MiftahInit /\ BarqInit /\ HeaderInit /\ NabdInit /\ SaylInit /\ RotationInit /\ ZbatInit
  /\ MunassiqInit

\* Nothing has been called yet in a module.
MiftahIdle == nextCall = 0 /\ miftahs = <<>>

NabdIdle == ncalls = 0 /\ nclock = 0

SaylIdle == scalls = 0 /\ sclock = 0 /\ timers = <<>>

\* The key store, the pulse tracker and the flow controller keep their
\* state in three module-level Maps and share nothing; a behaviour
\* exercises one of the three.
PeersNext ==
  \/ NabdIdle /\ SaylIdle /\ MiftahNext
  \/ MiftahIdle /\ SaylIdle /\ NabdNext
  \/ MiftahIdle /\ NabdIdle /\ SaylNext

\* The per-peer modules.
PeersSpec == Init /\ [][PeersNext]_vars

\* The key store of one peer on a long-lived record.
LongRunNext ==
  \/ fataha("bob", MyPrivateKey, PeerPublicKey("bob"))
  \/ \E n \in TashfirRunLengths : TashfirRun("bob", n)
  \/ \E t \in Plaintexts : TashfirCall("bob", t)
  \/ TashfirResume
  \/ \E t \in FakkInputs : FakkCall("bob", t)
  \/ FakkResume

LongRunSpec == Init /\ [][LongRunNext]_vars

\* The coordinators Munassiq and FiveGLite.
MunassiqSpec == Init /\ [][MunassiqNext]_vars

\* The header codec on its own.
HeaderSpec == HeaderSpecInit /\ [][HeaderNext]_vars

\* The pulse and gap tracker.
NabdSpec == Init /\ [][NabdNext]_vars

\* The flow controller.
SaylSpec == Init /\ [][SaylNext]_vars

\* The key store under long runs of round trips.
RotationSpec == Init /\ [][RotationNext]_vars

\* Packets sealed, sent and opened between two parties.
ZbatSpec == Init /\ [][ZbatNext]_vars

\* Packets sealed, sent and read by a router.
RouterSpec == Init /\ [][RouterNext]_vars

\* ------------------------------------------------------------------------
\* Properties of the key store
\* ------------------------------------------------------------------------

Fakks == {i \in DOMAIN log : log[i].op = "fakk"}

Tashfirs == {i \in DOMAIN log : log[i].op = "tashfir" /\ log[i].outcome = "Ok"}

\* Call j was made after call i had returned.
CalledAfter(j, i) == log[j].after >= i

\* Calls i and j were in flight at the same time.
Overlap(i, j) == i # j /\ ~CalledAfter(j, i) /\ ~CalledAfter(i, j)

\* C1 (puncture invariant): once a fakk on a key record has returned
\* plaintext for sequence S, every fakk called later on that record with a
\* ciphertext carrying S, the same bytes or other bytes, ends in the replay
\* branch and returns no plaintext.
C1_PunctureInvariant ==
  \A i, j \in Fakks :
    (/\ log[i].outcome = "Plain"
     /\ log[j].miftah = log[i].miftah
     /\ log[j].sequence = log[i].sequence
     /\ CalledAfter(j, i))
    => (log[j].outcome = "Replay" /\ log[j].value = <<>>)

\* After a fakk returned plaintext, a fakk of other bytes carrying the
\* same sequence was refused as a replay.
C1_Witness ==
  \E i, j \in Fakks :
    /\ log[i].outcome = "Plain"
    /\ log[j].miftah = log[i].miftah
    /\ log[j].sequence = log[i].sequence
    /\ CalledAfter(j, i)
    /\ log[j].input # log[i].input
    /\ log[j].outcome = "Replay"

\* The input of fakk call j is no ciphertext that tashfir returned for the
\* same record.
Forged(j) ==
  \A k \in Tashfirs : ~(log[k].miftah = log[j].miftah /\ log[k].value = log[j].input)

\* The input of call j holds the 4-byte sequence prefix.
CarriesSequence(j) == Len(FromBase64(log[j].input)) >= 4

\* C2 (no double accept): of two fakk calls for the same record and the
\* same ciphertext that are in flight at the same time, at most one returns
\* plaintext.
C2_NoDoubleAccept ==
  \A i, j \in Fakks :
    (/\ Overlap(i, j)
     /\ log[i].miftah = log[j].miftah /\ log[i].miftah # NoMiftah
     /\ log[i].input = log[j].input /\ CarriesSequence(i) /\ ~Forged(i))
    => ~(log[i].outcome = "Plain" /\ log[j].outcome = "Plain")

\* Call j read a sequence that was not punctured when it was made.
Fresh(j) == log[j].outcome \notin {"NoKey", "Raised", "Replay"}

\* C3 (no puncture on failure): a fakk of a forged or corrupted ciphertext
\* carrying a fresh sequence S ends in the failure branch, S stays out of
\* the punctured set, and a later fakk of the legitimate ciphertext for S
\* returns its plaintext.
C3_NoPunctureOnFailure ==
  \A j \in Fakks :
    (Forged(j) /\ CarriesSequence(j) /\ Fresh(j))
    => /\ log[j].outcome = "Failed"
       /\ \A k \in Fakks :
            (/\ CalledAfter(k, j) /\ ~Forged(k)
             /\ log[k].miftah = log[j].miftah /\ log[k].sequence = log[j].sequence)
            => log[k].outcome = "Plain"

\* Call j is the first fakk made for its record with its input.
FirstFakk(j) ==
  \A f \in Fakks :
    (log[f].miftah = log[j].miftah /\ log[f].input = log[j].input) => log[f].id >= log[j].id

\* C4 (round trip): the first fakk of the ciphertext that tashfir returned
\* for plaintext M on the same record returns exactly M.
C4_RoundTrip ==
  \A k \in Tashfirs, j \in Fakks :
    (/\ log[j].miftah = log[k].miftah
     /\ log[j].input = log[k].value
     /\ FirstFakk(j))
    => (log[j].outcome = "Plain" /\ log[j].value = log[k].input)

\* C5 (send-sequence allocation): on one key record the n-th tashfir call
\* returns sequence n-1, so the first returns 0 and no two return the same
\* sequence, also when calls overlap; the counter of the record equals the
\* number of sequences handed out.
C5_SendSequenceAllocation ==
  /\ \A j \in Tashfirs :
       log[j].sequence =
         NumOf(Cardinality({k \in Tashfirs :
                              log[k].miftah = log[j].miftah /\ log[k].id < log[j].id}))
  /\ \A m \in DOMAIN miftahs :
       miftahs[m].currentSequence =
         NumOf(Cardinality({k \in Tashfirs : log[k].miftah = m})
               + Cardinality({c \in DOMAIN calls :
                                calls[c].op = "tashfir" /\ calls[c].miftah = m}))

\* Two overlapping tashfir calls on one record returned 0 and 1.
C5_Witness ==
  \E i, j \in Tashfirs :
    /\ Overlap(i, j)
    /\ log[i].miftah = log[j].miftah
    /\ log[i].sequence = NumOf(0) /\ log[j].sequence = NumOf(1)

\* ------------------------------------------------------------------------
\* Properties of the datagram protocol
\* ------------------------------------------------------------------------

Processed == {i \in DOMAIN blog : blog[i].op = "processPacket"}

Created == {i \in DOMAIN blog : blog[i].op = "createDataPacket" /\ blog[i].outcome = "Packet"}

Opened == {i \in DOMAIN blog : blog[i].op = "createConnection"}

BCalledAfter(j, i) == blog[j].after >= i

\* C6 (no datagram accepted twice): after processPacket has returned a
\* peer and a plaintext for a DATA packet, processPacket called again with
\* the identical bytes returns no plaintext.
C6_NoDatagramTwice ==
  \A i, j \in Processed :
    (/\ blog[i].outcome = "Payload"
     /\ decodeHeader(blog[i].input).type = DATA
     /\ blog[j].input = blog[i].input
     /\ BCalledAfter(j, i))
    => blog[j].outcome = "Null"

\* Some connection in the Map `open` holds the secret packet k was
\* encrypted with.
AbleToDecrypt(open, k) ==
  \E e \in DOMAIN open :
    conns[open[e][2]].sharedSecret = conns[blog[k].conn].sharedSecret

\* C7 (datagram round trip and peer attribution): processPacket applied to
\* the bytes createDataPacket(P, m) returned gives the pair (P, m) while a
\* connection to P is open, and null when no open connection can decrypt
\* the packet.
C7_RoundTripAttribution ==
  \A k \in Created, j \in Processed :
    blog[j].input = blog[k].value
    => IF ConnOf(blog[j].open, blog[k].peerId) # NoConn
         THEN /\ blog[j].outcome = "Payload"
              /\ blog[j].peerId = blog[k].peerId
              /\ blog[j].value = blog[k].input
       ELSE IF ~AbleToDecrypt(blog[j].open, k)
         THEN blog[j].outcome = "Null"
       ELSE TRUE

\* C8 (0-RTT): createConnection returns a connection with sendSequence 0,
\* recvSequence 0 and the default RTT estimate; every createDataPacket
\* called for a peer whose connection is open returns a DATA header
\* followed by the ciphertext, the first one on a connection with sequence
\* 0, whether or not any packet was processed before.
C8_ZeroRTT ==
  /\ \A i \in Opened :
       /\ blog[i].value.sendSequence = NumOf(0)
       /\ blog[i].value.recvSequence = NumOf(0)
       /\ blog[i].value.rtt = [base |-> DEFAULT_RTT, samples |-> <<>>]
  /\ \A k \in DOMAIN blog :
       (blog[k].op = "createDataPacket" /\ ConnOf(blog[k].open, blog[k].peerId) # NoConn)
       => /\ blog[k].outcome = "Packet"
          /\ LET h == decodeHeader(blog[k].value) IN
               /\ h # NoHeader
               /\ h.version = BARQ_VERSION /\ h.type = DATA
               /\ h.sequence = blog[k].sequence
               /\ h.length = Len(blog[k].value) - BARQ_HEADER_SIZE
          /\ Slice(blog[k].value, BARQ_HEADER_SIZE)
               = encryptPayload(conns[blog[k].conn].sharedSecret, blog[k].sequence,
                                TextEncode(blog[k].input))
          /\ (\A f \in Created : blog[f].conn = blog[k].conn => blog[f].id >= blog[k].id)
             => blog[k].sequence = NumOf(0)

\* A connection was created and a data packet with sequence 0 was made for
\* it, and processPacket has not been called at all.
C8_Witness ==
  /\ Len(blog) = 2
  /\ bcalls = <<>>
  /\ bnextCall = 2
  /\ blog[1].op = "createConnection"
  /\ blog[2].op = "createDataPacket" /\ blog[2].outcome = "Packet"
  /\ blog[2].conn = blog[1].conn
  /\ Len(blog[2].value) > BARQ_HEADER_SIZE

\* C9 (header round trip): for a header with version and type in 0..255,
\* sequence and timestamp in 0..2^32-1, length and flags in 0..65535,
\* decodeHeader of the 16 bytes encodeHeader produced returns the
\* identical field values.
C9_HeaderRoundTrip ==
  /\ hpc \in {"encoded", "decoded"} => Len(encoded) = BARQ_HEADER_SIZE
  /\ hpc = "decoded" => decoded = header

\* A header whose sequence is 2^32-1 and whose timestamp is 2^31 went
\* through encodeHeader and decodeHeader.
C9_Witness ==
  /\ hpc = "decoded"
  /\ header.sequence = <<65535, 65535>>
  /\ header.timestamp = <<32768, 0>>
  /\ header.length = 65535

Malformed(data) ==
  Len(data) < BARQ_HEADER_SIZE \/ data[1] # 66 \/ data[2] # 81

\* No malformed input is decoded, none is waiting in a suspended
\* processPacket, and every processPacket of one returned null.
MalformedRefused ==
  /\ \A d \in Datagrams : Malformed(d) => decodeHeader(d) = NoHeader
  /\ \A c \in DOMAIN bcalls :
       bcalls[c].op = "processPacket" => ~Malformed(bcalls[c].input)
  /\ \A j \in Processed : Malformed(blog[j].input) => blog[j].outcome = "Null"

\* A processPacket call that returns for a malformed input changes nothing
\* but the record of calls.
MalformedChangesNothing ==
  (/\ Len(blog') = Len(blog) + 1
   /\ blog'[Len(blog')].op = "processPacket"
   /\ Malformed(blog'[Len(blog')].input))
  => UNCHANGED <<connections, conns, bcalls, now, ticks>>

\* C10 (malformed input): decodeHeader returns null for every input shorter
\* than 16 bytes and for every input whose first two bytes are not 0x42
\* 0x51, without changing any state, and processPacket returns null for
\* every such input.
C10_MalformedInput == [](MalformedRefused) /\ [][MalformedChangesNothing]_vars

\* processPacket has returned null for an input cut below 16 bytes and for
\* an input of full size with a wrong magic byte.
C10_Witness ==
  \E i, j \in Processed :
    /\ Len(blog[i].input) < BARQ_HEADER_SIZE /\ blog[i].outcome = "Null"
    /\ Len(blog[j].input) > BARQ_HEADER_SIZE /\ blog[j].input[2] # 81
    /\ blog[j].outcome = "Null"
    /\ connections # <<>>

\* ------------------------------------------------------------------------
\* Properties of the pulse and gap tracker
\* ------------------------------------------------------------------------

\* The last call was onReceive on a peer that had state.
Received == nret.op = "onReceive" /\ nret.before # NoState

\* The members of a Set kept as a sequence.
Members(set) == {set[i] : i \in DOMAIN set}

\* The integers lo, lo + 1, ..., hi - 1 in ascending order.
Ascending(lo, hi) == [i \in 1 .. (hi - lo) |-> lo + i - 1]

\* C11 (gap detection): onReceive(peer, s) called with s above the expected
\* sequence e returns exactly e, e + 1, ..., s - 1 in ascending order, and
\* returns the empty list when s <= e.
C11_GapDetection ==
  Received =>
    nret.value = IF nret.sequence > nret.before.expectedSequence
                   THEN Ascending(nret.before.expectedSequence, nret.sequence)
                   ELSE <<>>

\* Sequences 0, 1 and 3 were received in that order and the third call
\* returned [2].
C11_Witness ==
  /\ Received
  /\ nret.sequence = 3
  /\ nret.before.expectedSequence = 2
  /\ nret.before.gaps = <<>>
  /\ received[nret.peerId] = {0, 1, 3}
  /\ nret.value = <<2>>

\* C12 (onReceive state update): after onReceive(peer, s) from expected
\* sequence e and gap set G, the gap set is (G united with e .. s - 1)
\* without s, and the expected sequence is max(e, s + 1).
C12_ReceiveUpdate ==
  Received =>
    LET e == nret.before.expectedSequence
        s == nret.sequence
        G == Members(nret.before.gaps)
        after == states[nret.peerId]
    IN  /\ Members(after.gaps) = (G \cup {i \in Sequences : e <= i /\ i < s}) \ {s}
        /\ after.expectedSequence = (IF e >= s + 1 THEN e ELSE s + 1)
        /\ after.expectedSequence >= e

\* A late retransmit of a gap member arrived and left the gap set.
C12_Witness ==
  /\ Received
  /\ nret.sequence \in Members(nret.before.gaps)
  /\ nret.sequence \notin Members(states[nret.peerId].gaps)
  /\ Members(states[nret.peerId].gaps) # {}
  /\ states[nret.peerId].expectedSequence = nret.before.expectedSequence

\* C13 (no gap re-opening): onReceive for a sequence below the expected
\* sequence returns the empty list, adds nothing to the gap set and leaves
\* the expected sequence unchanged; a sequence once received is never in
\* the gap set again.
C13_NoGapReopening ==
  /\ (Received /\ nret.sequence < nret.before.expectedSequence) =>
       /\ nret.value = <<>>
       /\ Members(states[nret.peerId].gaps) \subseteq Members(nret.before.gaps)
       /\ states[nret.peerId].expectedSequence = nret.before.expectedSequence
  /\ \A p \in Peers :
       states[p] # NoState => Members(states[p].gaps) \cap received[p] = {}

\* A sequence received before was delivered again, below the expected
\* sequence and with gaps still open.
C13_Witness ==
  /\ Received
  /\ nret.sequence < nret.before.expectedSequence
  /\ nret.sequence \notin Members(nret.before.gaps)
  /\ nret.before.gaps # <<>>
  /\ states[nret.peerId].gaps = nret.before.gaps

\* ------------------------------------------------------------------------
\* Properties of the flow controller
\* ------------------------------------------------------------------------

\* The last step was the call op on a peer that had flow state.
SaylCalled(op) == sret.op = op /\ sret.before # NoFlow

\* The flow object of the peer of the last call.
FlowNow == flows[sret.peerId]

FracLessEq(a, b) == ~FracLess(b, a)

\* C14 (AIMD decrease): onLoss sets congestionWindow to
\* max(MIN_CWND, floor(congestionWindow / 2)); the new value is never above
\* the old one and is strictly below it whenever the old one was above
\* MIN_CWND.
C14_AIMDDecrease ==
  SaylCalled("onLoss") =>
    LET old == sret.before.congestionWindow
        new == FlowNow.congestionWindow
        half == old[1] \div (2 * old[2])
    IN  /\ new = <<IF half > MIN_CWND THEN half ELSE MIN_CWND, 1>>
        /\ FracLessEq(new, old)
        /\ FracLess(FracOf(MIN_CWND), old) => FracLess(new, old)

\* onLoss has halved a window that had grown to a fraction above MIN_CWND.
C14_Witness ==
  /\ SaylCalled("onLoss")
  /\ sret.before.congestionWindow[2] # 1
  /\ FracLess(FlowNow.congestionWindow, sret.before.congestionWindow)

\* C15 (AIMD non-decrease on ack): onAck on a flow that is not throttled
\* never lowers congestionWindow, which becomes
\* min(MAX_CWND, congestionWindow + 1 / congestionWindow); onAck on a
\* throttled flow leaves congestionWindow unchanged.
C15_AckNonDecrease ==
  /\ SaylCalled("onAck") =>
       LET old == sret.before.congestionWindow
           new == FlowNow.congestionWindow
           sum == <<old[1] * old[1] + old[2] * old[2], old[1] * old[2]>>
       IN  IF sret.before.throttled
             THEN new = old
             ELSE /\ FracLessEq(old, new)
                  /\ new = IF FracLess(sum, FracOf(MAX_CWND))
                             THEN Frac(sum[1], sum[2])
                             ELSE FracOf(MAX_CWND)
  /\ SaylCalled("onAckRepeated") =>
       FracLessEq(sret.before.congestionWindow, FlowNow.congestionWindow)

\* onAck has raised a window that an earlier onAck had already raised.
C15_Witness ==
  /\ SaylCalled("onAck")
  /\ ~sret.before.throttled
  /\ sret.before.congestionWindow[2] # 1
  /\ FracLess(sret.before.congestionWindow, FlowNow.congestionWindow)

\* C16 (window bounds): after initFlow and any sequence of onSend, onAck,
\* onLoss and timer expiries, congestionWindow is within
\* MIN_CWND .. MAX_CWND.
C16_WindowBounds ==
  \A p \in Peers :
    flows[p] # NoFlow =>
      /\ FracLessEq(FracOf(MIN_CWND), flows[p].congestionWindow)
      /\ FracLessEq(flows[p].congestionWindow, FracOf(MAX_CWND))

\* onAck was called on a flow whose window was MAX_CWND and that was not
\* throttled.
C16_Witness ==
  /\ SaylCalled("onAck")
  /\ ~sret.before.throttled
  /\ sret.before.congestionWindow = FracOf(MAX_CWND)
  /\ FlowNow.congestionWindow = FracOf(MAX_CWND)

\* C17 (throttle window): from an onLoss call at time t with smoothed RTT r
\* the flow is throttled until t + 2r, also when onLoss is called again
\* while an earlier recovery timer is pending: while a recovery timer of
\* the flow object in the Map is not yet due, the flow is throttled.
C17_ThrottleWindow ==
  \A i \in DOMAIN timers :
    LET flow == flows[timers[i].peerId]
    IN  (/\ flow # NoFlow
         /\ flow.id = timers[i].flow
         /\ ~Due(timers[i]))
        => flow.throttled

\* C18 (canSend): right after initFlow the window is 10, nothing is in
\* flight, throttled is false and canSend is true; for a peer with flow
\* state canSend returns true exactly when packetsInFlight is below
\* congestionWindow.
C18_CanSend ==
  /\ SaylCalled("canSend") =>
       sret.value = (sret.before.packetsInFlight * sret.before.congestionWindow[2]
                       < sret.before.congestionWindow[1])
  /\ sret.op = "initFlow" =>
       /\ FlowNow.congestionWindow = <<10, 1>>
       /\ FlowNow.bytesInFlight = 0
       /\ FlowNow.packetsInFlight = 0
       /\ FlowNow.throttled = FALSE
       /\ Sendable(FlowNow) = TRUE

\* canSend has returned false: as many packets in flight as the window.
C18_Witness ==
  /\ SaylCalled("canSend")
  /\ sret.value = FALSE
  /\ FracOf(sret.before.packetsInFlight) = sret.before.congestionWindow

\* C19 (in-flight counters): onSend adds the byte count to bytesInFlight and
\* one to packetsInFlight; onAck subtracts the byte count and one packet,
\* flooring each at 0; neither counter is ever negative.
C19_InFlightCounters ==
  /\ SaylCalled("onSend") =>
       /\ FlowNow.bytesInFlight = sret.before.bytesInFlight + sret.args[1]
       /\ FlowNow.packetsInFlight = sret.before.packetsInFlight + 1
  /\ SaylCalled("onAck") =>
       /\ FlowNow.bytesInFlight =
            (IF sret.before.bytesInFlight > sret.args[1]
               THEN sret.before.bytesInFlight - sret.args[1] ELSE 0)
       /\ FlowNow.packetsInFlight =
            (IF sret.before.packetsInFlight > 1
               THEN sret.before.packetsInFlight - 1 ELSE 0)
  /\ \A p \in Peers :
       flows[p] # NoFlow =>
         flows[p].bytesInFlight >= 0 /\ flows[p].packetsInFlight >= 0

\* An onAck arrived with nothing in flight, after an earlier onAck had
\* taken out fewer bytes than it acknowledged.
C19_Witness ==
  /\ SaylCalled("onAck")
  /\ sret.before.packetsInFlight = 0
  /\ sret.before.bytesInFlight = 0
  /\ sret.before.rttMin # Infinity
  /\ FlowNow.packetsInFlight = 0
  /\ FlowNow.bytesInFlight = 0

\* The last step was a call on a peer without flow state.
UnknownPeer(ops) == sret.op \in ops /\ sret.before = NoFlow

\* canSend returns true and getThroughput returns 0 for a peer without
\* flow state, and the peer is without flow state after any call but
\* initFlow.
UnknownPeerReturns ==
  /\ UnknownPeer({"canSend"}) => sret.value = TRUE
  /\ UnknownPeer({"getThroughput"}) => sret.value = <<0, 1>>
  /\ UnknownPeer({"onSend", "onAck", "onLoss", "canSend", "getThroughput"})
       => FlowNow = NoFlow

\* A call on a peer without flow state changes no flow, starts no timer
\* and creates no object.
UnknownPeerChangesNothing ==
  (/\ scalls' = scalls + 1
   /\ sret'.op \in {"onSend", "onAck", "onLoss", "canSend", "getThroughput"}
   /\ sret'.before = NoFlow)
  => UNCHANGED <<flows, timers, nextFlow>>

\* C20 (unknown peer in the flow controller): for a peer with no flow
\* state onSend, onAck and onLoss change nothing, create no state and start
\* no timer, canSend returns true and getThroughput returns 0.
C20_UnknownPeer == [](UnknownPeerReturns) /\ [][UnknownPeerChangesNothing]_vars

\* onLoss was called for a peer without flow state while the other peer
\* had a throttled flow with its recovery timer pending.
C20_Witness ==
  /\ UnknownPeer({"onLoss"})
  /\ Len(timers) = 1
  /\ \E p \in Peers : flows[p] # NoFlow /\ flows[p].throttled

\* ------------------------------------------------------------------------
\* Properties of the pulse timer
\* ------------------------------------------------------------------------

\* The last call was op on a peer that had state.
NabdCalled(op) == nret.op = op /\ nret.before # NoState

\* What shouldPulse returns and changes: true exactly when at least
\* NABD_PULSE_INTERVAL ms have passed since lastPulse, and then lastPulse
\* is the current time; false otherwise, with the state as it was.
PulseExactly ==
  (/\ ncalls' = ncalls + 1
   /\ nret'.op = "shouldPulse"
   /\ nret'.before # NoState)
  => LET p == nret'.peerId
     IN  /\ nret'.before = states[p]
         /\ nret'.value = (nclock - states[p].lastPulse >= 100)
         /\ IF nret'.value
              THEN states' = [states EXCEPT ![p].lastPulse = nclock]
              ELSE UNCHANGED states

\* Two calls for a peer that returned true are at least
\* NABD_PULSE_INTERVAL ms apart.
PulsesApart ==
  \A p \in Peers : \A i, j \in DOMAIN pulses[p] :
    i < j => pulses[p][j] - pulses[p][i] >= 100

\* C21 (shouldPulse): for a peer with state it returns true exactly when
\* the time since lastPulse is at least 100 ms, and then sets lastPulse to
\* the current time; otherwise it returns false and changes nothing; two
\* calls that return true are at least 100 ms apart.
C21_ShouldPulse == [](PulsesApart) /\ [][PulseExactly]_vars

\* shouldPulse returned true a second time for a peer, exactly 100 ms after
\* the first.
C21_Witness ==
  /\ NabdCalled("shouldPulse")
  /\ nret.value = TRUE
  /\ Len(pulses[nret.peerId]) = 2
  /\ pulses[nret.peerId][2] - pulses[nret.peerId][1] = 100

\* What isHealthy returns: true exactly when less than 300 ms have passed
\* since lastReceived; it changes no state.
HealthyExactly ==
  (/\ ncalls' = ncalls + 1
   /\ nret'.op = "isHealthy"
   /\ nret'.before # NoState)
  => /\ nret'.value = (nclock - states[nret'.peerId].lastReceived < 300)
     /\ UNCHANGED <<states, nclock>>

\* initTiming and every onReceive on a peer with state set lastReceived to
\* the current time.
ReceiptStamped ==
  (/\ ncalls' = ncalls + 1
   /\ \/ nret'.op = "initTiming"
      \/ nret'.op = "onReceive" /\ nret'.before # NoState)
  => states'[nret'.peerId].lastReceived = nclock

\* C22 (isHealthy): for a peer with state it returns true exactly when the
\* time since the last receipt, set by initTiming and by every onReceive,
\* is below 100 ms x 3 = 300 ms; it changes no state.
C22_IsHealthy == [][HealthyExactly /\ ReceiptStamped]_vars

\* isHealthy returned false 300 ms after the last onReceive of the peer.
C22_Witness ==
  /\ NabdCalled("isHealthy")
  /\ nret.value = FALSE
  /\ received[nret.peerId] # {}
  /\ nclock - nret.before.lastReceived = 300

\* ------------------------------------------------------------------------
\* Properties of the key store: destroy, rotation, hostile input
\* ------------------------------------------------------------------------

\* The record of the call made in this step, if one was made: it has
\* returned at once or it is the last suspended call.
CallMade == nextCall' = nextCall + 1

NewCall ==
  IF Len(log') > Len(log) THEN log'[Len(log')] ELSE calls'[Len(calls')]

\* When a record leaves the store its master secret is all zero and its
\* punctured set is empty.
DestroyZeroizes ==
  \A p \in Peers :
    (keys[p] # NoMiftah /\ keys'[p] = NoMiftah) =>
      /\ \A i \in DOMAIN miftahs'[keys[p]].masterSecret :
           miftahs'[keys[p]].masterSecret[i] = 0
      /\ miftahs'[keys[p]].puncturedSequences = {}

\* A tashfir or fakk for a peer without a record returns the no-key
\* outcome at once and changes no record.
NoSessionWithoutRecord ==
  (CallMade /\ keys[NewCall.peerId] = NoMiftah) =>
    /\ Len(log') = Len(log) + 1
    /\ NewCall.outcome = "NoKey"
    /\ UNCHANGED <<keys, miftahs, calls>>

\* aghlaqa for a peer without a record changes nothing.
DestroyWithoutRecord ==
  \A p \in Peers : (keys[p] = NoMiftah /\ aghlaqa(p)) => UNCHANGED vars

\* C23 (destroy): after aghlaqa returns for a peer every byte of the
\* record's master secret is zero, its punctured set is empty and the record
\* is not in the store; every later tashfir or fakk for the peer returns
\* the no-key outcome until a new fataha; aghlaqa for a peer without a
\* record changes nothing.
C23_Destroy ==
  [][DestroyZeroizes /\ NoSessionWithoutRecord /\ DestroyWithoutRecord]_vars

\* A record that had decrypted a ciphertext was destroyed, and a later
\* call for its peer returned the no-key outcome.
C23_Witness ==
  \E i, j \in DOMAIN log :
    /\ log[i].op = "fakk" /\ log[i].outcome = "Plain"
    /\ miftahs[log[i].miftah].puncturedSequences = {}
    /\ \A k \in DOMAIN miftahs[log[i].miftah].masterSecret :
         miftahs[log[i].miftah].masterSecret[k] = 0
    /\ j > i
    /\ log[j].peerId = log[i].peerId
    /\ log[j].outcome = "NoKey"
    /\ keys[log[i].peerId] = NoMiftah

\* C30 (receive-side decrypt never raises): fakk for a peer with a record,
\* called with input that decodes to fewer than the 4 bytes of the sequence
\* prefix, returns a failure value: it neither raises nor returns text, and
\* it punctures no sequence.
C30_FakkNeverRaises ==
  \A i \in Fakks :
    (log[i].miftah # NoMiftah /\ Len(FromBase64(log[i].input)) < 4) =>
      /\ log[i].outcome \notin {"Raised", "Plain"}
      /\ log[i].sequence \notin miftahs[log[i].miftah].puncturedSequences

\* What needsRotation returns for a peer with a record: true exactly when
\* at least 1000 sequences are punctured on the record; it changes nothing.
RotationExactly ==
  (rret'.calls = rret.calls + 1 /\ keys[rret'.peerId] # NoMiftah) =>
    /\ rret'.value =
         (Cardinality(miftahs[keys[rret'.peerId]].puncturedSequences) >= 1000)
    /\ UNCHANGED <<keys, miftahs>>

\* On a record in the store the sequences decrypted so far are the
\* punctured ones, and their number does not go down.
PuncturesGrow ==
  \A p \in Peers :
    (keys[p] # NoMiftah /\ keys'[p] = keys[p]) =>
      miftahs[keys[p]].puncturedSequences \subseteq miftahs'[keys[p]].puncturedSequences

\* C24 (needsRotation): for a peer with a record it returns true exactly
\* when the number of punctured sequences is at least 1000: false until
\* that many distinct sequences have been decrypted on the record, true
\* from then on.
C24_NeedsRotation == [][RotationExactly /\ PuncturesGrow]_vars

\* needsRotation has returned true on a record with exactly 1000 punctured
\* sequences.
C24_Witness ==
  /\ rret.op = "needsRotation"
  /\ rret.miftah # NoMiftah
  /\ rret.value = TRUE
  /\ keys[rret.peerId] = rret.miftah
  /\ Cardinality(miftahs[rret.miftah].puncturedSequences) = 1000

\* The satr calls that returned a packet, and the kashf calls that
\* returned.
Seals == {i \in DOMAIN zlog : zlog[i].op = "satr" /\ zlog[i].inner = "Ok"}

Opens == {i \in DOMAIN zlog : zlog[i].op = "kashf"}

\* A call for a peer without a record: tashfir returns its failure, satr
\* returns null and no packet, and the key store is left as it was.
SealWithoutRecord ==
  (/\ nextCall' = nextCall + 1
   /\ Len(log') = Len(log) + 1
   /\ log'[Len(log')].op = "tashfir"
   /\ keys[log'[Len(log')].peerId] = NoMiftah)
  => /\ log'[Len(log')].outcome = "NoKey"
     /\ log'[Len(log')].value = <<>>
     /\ log'[Len(log')].sequence = NoSequence
     /\ UNCHANGED <<keys, miftahs, calls, wire>>
     /\ Len(zlog') = Len(zlog) + 1
     /\ zlog'[Len(zlog')].op = "satr"
     /\ zlog'[Len(zlog')].recipientId = log'[Len(log')].peerId
     /\ zlog'[Len(zlog')].value = Null

\* C25 (no session on the send side): tashfir for a peer with no key
\* record returns the no-session failure, and satr for such a recipient
\* returns a failure and no packet; no record is created and no sequence
\* is consumed for any peer.
C25_NoSessionSeal == [][SealWithoutRecord]_vars

\* satr was called for a recipient without a record and returned null.
C25_Witness ==
  \E i \in DOMAIN zlog :
    /\ zlog[i].op = "satr"
    /\ zlog[i].inner = "NoKey"
    /\ zlog[i].value = Null
    /\ \E j \in DOMAIN log : log[j].id = zlog[i].id /\ log[j].outcome = "NoKey"

\* The packet the receiver got for the one sealed by call i.
ReceivedFor(i) == {w.tabaq : w \in {v \in wire : v.sent = zlog[i].value}}

\* C26 (envelope round trip): for an established session, a batin that is
\* sealed, serialized, deserialized and opened once comes back with the
\* same type, content and metadata; the zahir survives serialization
\* unchanged and its ghilafSize is the number of encrypted bytes.
C26_RoundTrip ==
  /\ \A i \in Seals, j \in Opens :
       (zlog[j].tabaq \in ReceivedFor(i) /\ zlog[j].inner = "Plain")
         => zlog[j].value = zlog[i].batin
  /\ \A w \in wire :
       /\ w.tabaq # Null
       /\ w.tabaq.zahir = w.sent.zahir
       /\ Get(w.tabaq.zahir, KeyGhilafSize) = JsonNumber(Len(w.sent.ghilaf.batin))

\* C27 (open failure propagation): what kashf reports when fakk fails by
\* replay differs from what it reports for a corrupt or forged packet, so
\* that the caller can tell the two apart.
C27_OpenFailure ==
  \A i \in Opens, j \in Opens :
    (/\ zlog[i].inner = "Replay"
     /\ zlog[j].inner = "Plain"
     /\ zlog[j].value = Null)
    => zlog[i].value # zlog[j].value

\* extractZahir of the bytes of a packet sent returns the sender, the
\* recipient and the priority the packet was sealed with; of bytes that do
\* not parse it returns null.
ZahirRead ==
  zret.op = "extractZahir" =>
    /\ \A i \in Seals :
         (\E w \in wire : w.sent = zlog[i].value /\ w.data = zret.input)
           => /\ Get(zret.zahir, KeySenderId) = JsonString(IdText(zlog[i].identity))
              /\ Get(zret.zahir, KeyRecipientId) = JsonString(IdText(zlog[i].recipientId))
              /\ Get(zret.zahir, KeyDaraja) = JsonNumber(zlog[i].daraja)
    /\ (Len(zret.input) < 4 => zret.zahir = JsonNull)
    /\ (Len(zret.input) >= 4 /\ IsSyntaxError(JsonParse(ZahirJson(zret.input)))
          => zret.zahir = JsonNull)

\* extractZahir leaves the key store as it was.
ZahirReadOnly == (zret' # zret) => UNCHANGED <<keys, miftahs, calls, log, nextCall>>

\* C28 (manifest visibility): extractZahir applied to the serialized bytes
\* of a sealed packet returns the sender, recipient and priority it was
\* sealed with, whether or not there is a key record for a party, and
\* leaves the key store unchanged; on bytes that do not parse it returns
\* null.
C28_ManifestVisibility == [](ZahirRead) /\ [][ZahirReadOnly]_vars

\* The zahir of a packet sent was read while there is no record for its
\* sender.
C28_Witness ==
  /\ zret.op = "extractZahir"
  /\ keys["alice"] = NoMiftah
  /\ zret.zahir[1] = "obj"
  /\ \E i \in Seals : \E w \in wire :
       /\ w.sent = zlog[i].value
       /\ w.data = zret.input
       /\ Get(zret.zahir, KeyDaraja) = JsonNumber(zlog[i].daraja)

\* Two satr calls agree on what the zahir may show.
SameOutside(i, j) ==
  /\ zlog[i].identity = zlog[j].identity
  /\ zlog[i].recipientId = zlog[j].recipientId
  /\ zlog[i].daraja = zlog[j].daraja
  /\ zlog[i].clock = zlog[j].clock
  /\ Len(zlog[i].value.ghilaf.batin) = Len(zlog[j].value.ghilaf.batin)

\* C29 (manifest confidentiality): two satr calls that agree on identity,
\* recipient, priority and clock value and whose batins have the same
\* encrypted size produce the same zahir.
C29_ManifestConfidentiality ==
  \A i \in Seals, j \in Seals : SameOutside(i, j) => zlog[i].value.zahir = zlog[j].value.zahir

\* Two satr calls of different batins agreed on the rest and produced the
\* same zahir.
C29_Witness ==
  \E i \in Seals, j \in Seals :
    /\ SameOutside(i, j)
    /\ zlog[i].batin # zlog[j].batin
    /\ zlog[i].value.ghilaf.batin # zlog[j].value.ghilaf.batin
    /\ zlog[i].value.zahir = zlog[j].value.zahir

\* The record of a suspended call was destroyed: its object is zeroized and
\* is no longer the peer's record.
Destroyed(c) ==
  /\ keys[c.peerId] # c.miftah
  /\ miftahs[c.miftah].masterSecret = Zeros(Len(miftahs[c.miftah].masterSecret))

\* The step resumes the suspended call c.
Resumes(c) == calls # <<>> /\ c = Head(calls) /\ calls' = Tail(calls) /\ Len(log') = Len(log) + 1

\* A call that resumes after its record was destroyed uses the key it
\* derived before the destroy and leaves every record of the store as it
\* was.
ResumeAfterDestroy ==
  \A c \in {calls[i] : i \in DOMAIN calls} :
    (Resumes(c) /\ Destroyed(c))
      => /\ keys' = keys
         /\ \A p \in Peers : keys[p] # NoMiftah => miftahs'[keys[p]] = miftahs[keys[p]]
         /\ c.seqKey # deriveSequenceKey(miftahs[c.miftah].masterSecret, c.sequence)
         /\ log'[Len(log')].id = c.id
         /\ log'[Len(log')].op = "tashfir"
               => log'[Len(log')].value = TashfirResult(c.sequence, c.seqKey, c.input)
         /\ log'[Len(log')].op = "fakk"
               => log'[Len(log')].value = FakkPlaintext(c.ciphertext, c.seqKey)

\* C31 (no use-after-destroy): when aghlaqa runs for a peer while a tashfir
\* or fakk for that peer is suspended, the call, when it resumes, does not
\* derive a key from the zeroized master secret and does not change any
\* record that exists for the peer after the destroy, including one
\* established later.
C31_NoUseAfterDestroy == [][ResumeAfterDestroy]_vars

\* A fakk returned after its record was destroyed and a new record was
\* established for the peer: the puncture went to the destroyed object.
C31_Witness ==
  \E i \in DOMAIN log :
    /\ log[i].op = "fakk"
    /\ log[i].outcome = "Plain"
    /\ miftahs[log[i].miftah].masterSecret = Zeros(Len(miftahs[log[i].miftah].masterSecret))
    /\ log[i].sequence \in miftahs[log[i].miftah].puncturedSequences
    /\ keys[log[i].peerId] # NoMiftah
    /\ keys[log[i].peerId] # log[i].miftah
    /\ miftahs[keys[log[i].peerId]].puncturedSequences = {}

\* The peer the operation of a step was invoked for ("none": the step is
\* a clock tick or changes nothing).
Actor ==
  IF ncalls' # ncalls THEN nret'.peerId
  ELSE IF scalls' # scalls \/ timers' # timers THEN sret'.peerId
  ELSE IF calls # <<>> /\ calls' = Tail(calls) THEN Head(calls).peerId
  ELSE IF nextCall' # nextCall
    THEN IF Len(log') > Len(log) THEN log'[Len(log')].peerId ELSE calls'[Len(calls')].peerId
  ELSE IF Len(miftahs') > Len(miftahs) THEN miftahs'[Len(miftahs')].peerId
  ELSE IF keys' # keys THEN CHOOSE p \in Peers : keys'[p] # keys[p]
  ELSE "none"

\* The pending recovery timers of a peer.
TimersOf(all, p) == SelectSeq(all, LAMBDA t : t.peerId = p)

\* The key record, the pulse state and the flow state of peer b are after
\* the step what they were before it.
Untouched(b) ==
  /\ keys'[b] = keys[b]
  /\ keys[b] # NoMiftah => miftahs'[keys[b]] = miftahs[keys[b]]
  /\ states'[b] = states[b]
  /\ flows'[b] = flows[b]
  /\ TimersOf(timers', b) = TimersOf(timers, b)

\* C32 (peer isolation): a key-store, pulse-tracker or flow-controller
\* operation invoked for peer A (fataha, tashfir, fakk, aghlaqa, onReceive,
\* shouldPulse, cleanup, onSend, onAck, onLoss and its timer) leaves the
\* key record, pulse state and flow state of every other peer unchanged.
C32_PeerIsolation == [][\A b \in Peers \ {Actor} : Untouched(b)]_vars

\* The recovery timer of alice fired and ended her throttling while bob,
\* throttled as well, stayed as he was.
C32_Witness ==
  /\ sret.op = "timer"
  /\ sret.peerId = "alice"
  /\ flows["alice"] # NoFlow
  /\ flows["bob"] # NoFlow
  /\ sret.before.throttled
  /\ ~flows["alice"].throttled
  /\ flows["bob"].throttled

\* The step is a createDataPacket call, from its start to its await or to
\* its return of null.
DataPacketCalled ==
  /\ bnextCall' = bnextCall + 1
  /\ \/ Len(blog') > Len(blog) /\ blog'[Len(blog')].op = "createDataPacket"
     \/ Len(bcalls') > Len(bcalls) /\ bcalls'[Len(bcalls')].op = "createDataPacket"

\* Without a connection the call returns null and changes nothing; with one
\* it takes the connection's sendSequence and advances it by one.
DataPacketStart ==
  DataPacketCalled =>
    IF Len(blog') > Len(blog)
      THEN /\ ConnOf(connections, blog'[Len(blog')].peerId) = NoConn
           /\ blog'[Len(blog')].outcome = "Null"
           /\ UNCHANGED <<connections, conns, bcalls>>
      ELSE LET f == bcalls'[Len(bcalls')]
               c == ConnOf(connections, f.peerId)
           IN /\ c # NoConn
              /\ f.conn = c
              /\ f.sequence = conns[c].sendSequence
              /\ conns'[c].sendSequence = NumAdd(conns[c].sendSequence, NumOf(1))
              /\ conns' = [conns EXCEPT ![c].sendSequence = conns'[c].sendSequence]
              /\ UNCHANGED connections

\* The call returns a 16-byte DATA header with the sequence taken and the
\* number of ciphertext bytes, then the ciphertext, and the sequence is
\* pending.
DataPacketReturn ==
  (bcalls # <<>> /\ Head(bcalls).op = "createDataPacket" /\ bcalls' = Tail(bcalls)) =>
    LET f == Head(bcalls)
        packet == blog'[Len(blog')].value
        h == decodeHeader(Take(packet, BARQ_HEADER_SIZE))
    IN /\ Len(blog') = Len(blog) + 1
       /\ blog'[Len(blog')].id = f.id
       /\ Len(packet) >= BARQ_HEADER_SIZE
       /\ h # NoHeader
       /\ h.type = DATA
       /\ h.sequence = f.sequence
       /\ h.length = Len(packet) - BARQ_HEADER_SIZE
       /\ Slice(packet, BARQ_HEADER_SIZE)
            = encryptPayload(conns[f.conn].sharedSecret, f.sequence, TextEncode(f.input))
       /\ conns' = [conns EXCEPT ![f.conn].pendingAcks = @ \cup {f.sequence}]
       /\ UNCHANGED connections

AckSample ==
  \A c \in DOMAIN conns :
    Len(conns'[c].rtt.samples) > Len(conns[c].rtt.samples) =>
      LET h == decodeHeader(Head(bcalls).input)
          sample == conns'[c].rtt.samples[Len(conns'[c].rtt.samples)]
      IN /\ sample = ToUint32(NumSub(ToUint32(now), h.timestamp))
         /\ sample[1] >= 0
         /\ sample[1] < W16

\* C34 (wraparound-safe RTT): for every ACK packet processed the RTT sample
\* equals (now - header timestamp) modulo 2^32 and lies in 0 .. 2^32 - 1,
\* for all 32-bit values of the truncated current time and of the header
\* timestamp, including a clock that wrapped between send and receive.
C34_WraparoundRtt == [][AckSample]_vars


\* A step registers a packet with onSend on the flow object of bob.
SendRegistered ==
  /\ flows["bob"] # NoFlow
  /\ flows'["bob"] # NoFlow
  /\ flows'["bob"].id = flows["bob"].id
  /\ flows'["bob"].packetsInFlight > flows["bob"].packetsInFlight

\* C35 (flow controller gates send): a packet is registered with onSend
\* only in a state where canSend of the peer is true, that is while
\* packetsInFlight is below congestionWindow.
C35_GatedSend == [][SendRegistered => Sendable(flows["bob"])]_vars

\* istiqbal returns a packet of bob to the caller, bob having a cell.
Accepted ==
  /\ Len(mcalls') < Len(mcalls)
  /\ mret'.op = "istiqbal"
  /\ mret'.peerId = "bob"
  /\ mret'.value = TRUE

\* C36 (receive path feeds the gap tracker): when a packet with header
\* sequence s of a peer is accepted by istiqbal, expectedSequence of the
\* peer is at least s + 1 afterwards.
C36_GapTrackerFed ==
  [][Accepted => /\ states'["bob"] # NoState
                 /\ ~NumLess(NumOf(states'["bob"].expectedSequence),
                             NumInc(mret'.sequence))]_vars

\* No per-peer state of any module remains for the peer.
NothingLeft(p) ==
  /\ keys[p] = NoMiftah
  /\ ConnOf(connections, p) = NoConn
  /\ states[p] = NoState
  /\ flows[p] = NoFlow
  /\ cells[p] = NoCell
  /\ peers[p] = NoPeer

\* C37 (disconnect leaves nothing behind): once Munassiq.qat was called
\* for a peer, and until tawsil is called for it again, no key record, Barq
\* connection, pulse state, flow state, cell or peer entry of it remains.
C37_NothingLeftBehind == \A p \in MunPeers : cut[p] => NothingLeft(p)

\* The members of the gaps of a state object.
GapMembers(state) == {state.gaps[i] : i \in DOMAIN state.gaps}

\* C38 (gap-set invariant): after initTiming and any onReceive calls for a
\* peer, the gaps are exactly the sequences below expectedSequence never
\* passed to onReceive, and expectedSequence is one more than the largest
\* sequence received, 0 if there is none.
C38_GapSet ==
  \A p \in Peers : states[p] # NoState =>
    /\ GapMembers(states[p]) =
         {n \in 0 .. (states[p].expectedSequence - 1) : n \notin received[p]}
    /\ \A n \in GapMembers(states[p]) : n < states[p].expectedSequence
    /\ IF received[p] = {}
         THEN states[p].expectedSequence = 0
         ELSE /\ states[p].expectedSequence - 1 \in received[p]
              /\ \A n \in received[p] : n < states[p].expectedSequence

\* A forward jump left gaps, and one of them was filled later while
\* another is still open.
C38_Witness ==
  \E p \in Peers :
    /\ states[p] # NoState
    /\ GapMembers(states[p]) # {}
    /\ \E n \in received[p] : \E g \in GapMembers(states[p]) :
         n < g /\ n + 1 < states[p].expectedSequence /\ n > 0 /\ 0 \in GapMembers(states[p])

\* fataha replaces the record of a peer that has one.
Reestablished(p) ==
  /\ keys[p] # NoMiftah
  /\ keys'[p] # NoMiftah
  /\ keys'[p] # keys[p]

\* The record after fataha: counter 0, nothing punctured, and the master
\* secret of the record it replaces.
FreshRecord(p) ==
  LET new == miftahs'[keys'[p]] IN
  /\ new.currentSequence = NumOf(0)
  /\ new.puncturedSequences = {}
  /\ new.masterSecret = miftahs[keys[p]].masterSecret

\* fakk call j is the first one to open its sequence under its record.
FirstOpen(j) ==
  \A k \in 1 .. (j - 1) :
    ~(log[k].op = "fakk" /\ log[k].outcome = "Plain"
      /\ log[k].miftah = log[j].miftah /\ log[k].sequence = log[j].sequence)

\* A ciphertext opened under one record, hence a replay for that record,
\* and handed to fakk again under a later record of the peer.
OpenedBefore(i, j) ==
  /\ i < j
  /\ log[i].op = "fakk" /\ log[j].op = "fakk"
  /\ log[i].outcome = "Plain"
  /\ log[i].peerId = log[j].peerId
  /\ log[i].input = log[j].input
  /\ log[j].miftah # NoMiftah
  /\ log[j].miftah > log[i].miftah
  /\ Len(FromBase64(log[j].input)) >= 4

DecryptsAgain ==
  \A i, j \in DOMAIN log :
    (OpenedBefore(i, j) /\ FirstOpen(j)) =>
      log[j].outcome = "Plain" /\ log[j].value = log[i].value

\* The first tashfir under every record uses sequence 0.
StartsAtZero ==
  \A j \in DOMAIN log :
    (/\ log[j].op = "tashfir" /\ log[j].outcome = "Ok"
     /\ \A k \in 1 .. (j - 1) : ~(log[k].op = "tashfir" /\ log[k].miftah = log[j].miftah))
      => log[j].sequence = NumOf(0)

EmbeddedSequence(text) == GetUint32(Take(FromBase64(text), 4), 0)

\* C40 (embedded sequence agrees with the key's sequence): the sequence
\* tashfir writes into the prefix of the ciphertext is the sequence it
\* returns and derived the key from, for every value of the counter.
C40_EmbeddedSequence ==
  \A j \in DOMAIN log :
    (log[j].op = "tashfir" /\ log[j].outcome = "Ok") =>
      EmbeddedSequence(log[j].value) = log[j].sequence
====
